---- MODULE Spec2Model ----
(***************************************************************************)
(* Model of the node catalogue of LinearAlgebraNodes.h: the two-pass       *)
(* Validate protocol of the product family and the broadcast pattern       *)
(* tables of PlusNode / MinusNode (EvaluateThisNode, ComputeInputPartial). *)
(***************************************************************************)
EXTENDS Integers, Sequences, FiniteSets, TLC

VARIABLES
    kind,       \* the node's operation (TypeName)
    in0, in1,   \* shape of Inputs(0) / Inputs(1) as the node sees it (for Plus/Minus: of their slices)
    lay0, lay1, \* Inputs(i)->HasMBLayout()
    out,        \* the node's own shape (FunctionValues rows x cols)
    outLay,     \* the node's m_pMBLayout is set
    err,        \* error raised by the last call ("none" if it returned)
    last,       \* the last call made on the node
    calls,      \* number of calls made so far
    orig0, orig1, \* shapes of the inputs before the first Validate call
    prev0, prev1, \* shapes of the inputs before the last Validate call
    frame,      \* FrameRange of the pass: "all" or "single"
    gaps,       \* columns of the node's slice that are padding according to its MBLayout
    val0, val1, \* Inputs(i)->ValueSlice(frameRange)
    nodeVal,    \* ValueSlice(frameRange)
    nodeGrad,   \* GradientSlice(frameRange)
    grad0, grad1, \* Inputs(i)->GradientSlice(frameRange)
    pre0, pre1, \* Inputs(i)'s gradient as it was before the last ComputeInputPartial
    branch,     \* the branch of the pattern table taken by the last call
    in2, in3,   \* shape of the control inputs Inputs(2) / Inputs(3) (StrideTimes, CosDistanceWithNegativeSamples)
    val2, val3, \* Inputs(2)->FunctionValues() / Inputs(3)->FunctionValues()
    grad2, grad3, \* Inputs(2) / Inputs(3)'s gradient
    pre2, pre3, \* ... as it was before the last ComputeInputPartial
    m_strideDim, m_stride, \* StrideTimesNode's members
    m_invNorm0, m_invNorm1, \* the inverse column norms kept between Evaluate and ComputeInputPartial
    nPar,       \* GetNumParallelSequences() of the node's MBLayout
    tIdx,       \* the time step a single-frame FrameRange denotes (1-based)
    phase,      \* per node of the graph: how far the pass has taken it
    lease,      \* per node and scratch member: the buffer it holds (0 = nullptr)
    releasedMatrices, \* the pool's buffers that are free to be handed out
    allocated,  \* number of buffers the pool has created
    requested, released \* per node and member: how often it was requested / released

vars == <<kind, in0, in1, lay0, lay1, out, outLay, err, last, calls, orig0, orig1, prev0, prev1,
          frame, gaps, val0, val1, nodeVal, nodeGrad, grad0, grad1, pre0, pre1, branch,
          in2, in3, val2, val3, grad2, grad3, pre2, pre3, m_strideDim, m_stride,
          m_invNorm0, m_invNorm1, nPar, tIdx, phase, lease, releasedMatrices, allocated, requested, released>>

shapeVars == <<kind, in0, in1, lay0, lay1, out, outLay>>
zipVars == <<frame, gaps, val0, val1, nodeVal, nodeGrad, grad0, grad1, pre0, pre1, branch>>
ctlVars == <<in2, in3, val2, val3, grad2, grad3, pre2, pre3, m_strideDim, m_stride,
             m_invNorm0, m_invNorm1, nPar, tIdx>>
poolVars == <<phase, lease, releasedMatrices, allocated, requested, released>>

\* ---------------------------------------------------------------- bounds
MaxDim == 2
MaxPasses == 3
MaxRows == 4
MaxCols == 4
MaxGradCalls == 2

\* ---------------------------------------------------------------- shapes
Shape(r, c) == [rows |-> r, cols |-> c]

NoShape == Shape(0, 0)

Max(a, b) == IF a >= b THEN a ELSE b

\* ComputationNodeBase::ValidateInferChildDims(i, rows, cols): the inferred
\* dimensions are written into the child's own shape
ValidateInferChildDims(child, rows, cols) == Shape(rows, cols)

\* InferMBLayoutFromInputsForStandardCase: inherit the layout of whichever input carries one
InferMBLayoutFromInputsForStandardCase(l0, l1) == l0 \/ l1

\* what a Validate call leaves behind: the (possibly inferred) input shapes,
\* the node's shape and layout, and the error it raised
Res(a, b, o, ol, e) == [in0 |-> a, in1 |-> b, out |-> o, outLay |-> ol, err |-> e]

\* ---------------------------------------------------------------- Validate
ScaleNodeValidate(a, b, la, lb, o, ol, final) ==
    IF final /\ (a.rows # 1 \/ a.cols # 1)
    THEN Res(a, b, o, ol, "RuntimeError")
    ELSE Res(a, b, b, InferMBLayoutFromInputsForStandardCase(la, lb), "none")

\* TimesNode::Validate without the check of the left operand's layout
TimesNodeValidateNoLayoutCheck(a, b, la, lb, o, ol, final) ==
    LET rows0 == a.rows
        cols0 == a.cols
        rows1 == b.rows
        cols1 == b.cols
    IN  IF final /\ (rows0 = 0 \/ (cols1 = 0 /\ ~lb))
        THEN Res(a, b, o, ol, "RuntimeError")
        ELSE LET a1 == IF cols0 = 0 /\ ~la /\ rows1 # 0 /\ final
                       THEN ValidateInferChildDims(a, rows0, rows1) ELSE a
                 b1 == IF cols0 # 0 /\ rows1 = 0
                       THEN ValidateInferChildDims(b, cols0, cols1) ELSE b
             IN  IF final /\ b1.rows # a1.cols
                 THEN Res(a1, b1, o, ol, "LogicError")
                 ELSE Res(a1, b1, Shape(rows0, cols1),
                          InferMBLayoutFromInputsForStandardCase(la, lb), "none")

TimesNodeValidate(a, b, la, lb, o, ol, final) ==
    LET rows0 == a.rows
        cols0 == a.cols
        rows1 == b.rows
        cols1 == b.cols
    IN  IF final /\ (rows0 = 0 \/ (cols1 = 0 /\ ~lb))
        THEN Res(a, b, o, ol, "RuntimeError")
        ELSE LET a1 == IF cols0 = 0 /\ ~la /\ rows1 # 0 /\ final
                       THEN ValidateInferChildDims(a, rows0, rows1) ELSE a
                 b1 == IF cols0 # 0 /\ rows1 = 0
                       THEN ValidateInferChildDims(b, cols0, cols1) ELSE b
             IN  IF final /\ b1.rows # a1.cols
                 THEN Res(a1, b1, o, ol, "LogicError")
                 ELSE IF final /\ la
                      THEN Res(a1, b1, Shape(rows0, cols1), ol, "InvalidArgument")
                      ELSE Res(a1, b1, Shape(rows0, cols1),
                               InferMBLayoutFromInputsForStandardCase(la, lb), "none")

TransposeTimesNodeValidate(a, b, la, lb, o, ol, final) ==
    LET rows0 == a.rows
        cols0 == a.cols
        rows1 == b.rows
        cols1 == b.cols
    IN  IF final /\ (rows0 = 0 \/ (~lb /\ cols1 = 0))
        THEN Res(a, b, o, ol, "RuntimeError")
        ELSE LET a1 == IF cols0 = 0 /\ rows1 # 0 /\ final
                       THEN ValidateInferChildDims(a, rows0, rows1) ELSE a
                 b1 == IF cols0 # 0 /\ rows1 = 0
                       THEN ValidateInferChildDims(b, cols0, cols1) ELSE b
             IN  IF final /\ b1.rows # a1.rows
                 THEN Res(a1, b1, o, ol, "LogicError")
                 ELSE Res(a1, b1, Shape(cols0, cols1),
                          InferMBLayoutFromInputsForStandardCase(la, lb), "none")

RowElementTimesNodeValidate(a, b, la, lb, o, ol, final) ==
    LET cols0 == a.cols
        rows1 == b.rows
        cols1 == b.cols
    IN  IF (final /\ cols0 # cols1) \/ rows1 # 1
        THEN Res(a, b, o, ol, "LogicError")
        ELSE Res(a, b, a, InferMBLayoutFromInputsForStandardCase(la, lb), "none")

ColumnElementTimesNodeValidate(a, b, la, lb, o, ol, final) ==
    LET a1 == ValidateInferChildDims(a, IF a.rows = 0 THEN b.rows ELSE a.rows,
                                        IF a.cols = 0 THEN b.cols ELSE a.cols)
        b1 == ValidateInferChildDims(b, IF b.rows = 0 THEN a1.rows ELSE b.rows,
                                        IF b.cols = 0 THEN a1.cols ELSE b.cols)
    IN  IF final /\ (a1.rows # b1.rows \/ b1.cols # 1)
        THEN Res(a1, b1, o, ol, "LogicError")
        ELSE Res(a1, b1, a1, InferMBLayoutFromInputsForStandardCase(la, lb), "none")

DiagTimesNodeValidate(a, b, la, lb, o, ol, final) ==
    LET a1 == IF a.rows = 0 /\ b.rows # 0
              THEN ValidateInferChildDims(a, b.rows, 1) ELSE a
        b1 == IF a1.rows # 0 /\ b.rows = 0
              THEN ValidateInferChildDims(b, a1.rows, b.cols) ELSE b
    IN  IF final /\ b1.rows # a1.rows
        THEN Res(a1, b1, o, ol, "LogicError")
        ELSE IF final /\ a1.cols # 1
             THEN Res(a1, b1, o, ol, "LogicError")
             ELSE Res(a1, b1, Shape(a1.rows, b1.cols),
                      InferMBLayoutFromInputsForStandardCase(la, lb), "none")

SumElementsNodeValidate(a, b, la, lb, o, ol, final) ==
    Res(a, b, Shape(1, 1), FALSE, "none")

SumColumnElementsNodeValidate(a, b, la, lb, o, ol, final) ==
    Res(a, b, Shape(1, a.cols), InferMBLayoutFromInputsForStandardCase(la, lb), "none")

TransposeNodeValidate(a, b, la, lb, o, ol, final) ==
    IF la
    THEN Res(a, b, Shape(a.cols, a.rows), ol, "InvalidArgument")
    ELSE Res(a, b, Shape(a.cols, a.rows), FALSE, "none")

DiagonalNodeValidate(a, b, la, lb, o, ol, final) ==
    IF a.rows * a.cols = 0
    THEN Res(a, b, o, ol, "LogicError")
    ELSE Res(a, b, Shape(1, a.cols), InferMBLayoutFromInputsForStandardCase(la, lb), "none")


\* KhatriRaoProductNode::Validate without the inference of input 0's column count
KhatriRaoProductNodeValidateNoInferLeft(a, b, la, lb, o, ol, final) ==
    LET rows0 == a.rows
        cols0 == a.cols
        rows1 == b.rows
        cols1 == b.cols
        a1 == a
        b1 == IF cols0 # 0 /\ cols1 = 0
              THEN ValidateInferChildDims(b, rows1, cols0) ELSE b
    IN  IF final /\ b1.cols # a1.cols
        THEN Res(a1, b1, o, ol, "LogicError")
        ELSE Res(a1, b1, Shape(rows0 * rows1, a1.cols),
                 InferMBLayoutFromInputsForStandardCase(la, lb), "none")

KhatriRaoProductNodeValidate(a, b, la, lb, o, ol, final) ==
    LET rows0 == a.rows
        cols0 == a.cols
        rows1 == b.rows
        cols1 == b.cols
        a1 == IF cols0 = 0 /\ cols1 # 0
              THEN ValidateInferChildDims(a, rows0, cols1) ELSE a
        b1 == IF cols0 # 0 /\ cols1 = 0
              THEN ValidateInferChildDims(b, rows1, cols0) ELSE b
    IN  IF final /\ b1.cols # a1.cols
        THEN Res(a1, b1, o, ol, "LogicError")
        ELSE Res(a1, b1, Shape(rows0 * rows1, a1.cols),
                 InferMBLayoutFromInputsForStandardCase(la, lb), "none")

\* ValidateInferBinaryChildrenDims: a zero dimension of an input is inferred from the other input
ValidateInferBinaryChildrenDims(a, b) ==
    LET a1 == ValidateInferChildDims(a, IF a.rows = 0 THEN b.rows ELSE a.rows,
                                        IF a.cols = 0 THEN b.cols ELSE a.cols)
        b1 == ValidateInferChildDims(b, IF b.rows = 0 THEN a1.rows ELSE b.rows,
                                        IF b.cols = 0 THEN a1.cols ELSE b.cols)
    IN  <<a1, b1>>

CosDistanceNodeValidate(a, b, la, lb, o, ol, final) ==
    LET ab == ValidateInferBinaryChildrenDims(a, b)
    IN  Res(ab[1], ab[2], Shape(1, ab[2].cols), InferMBLayoutFromInputsForStandardCase(la, lb), "none")

BinaryKinds == {"Scale", "Times", "TransposeTimes", "RowElementTimes",
                "ColumnElementTimes", "DiagTimes", "KhatriRaoProduct", "CosDistance"}

UnaryKinds == {"SumElements", "SumColumnElements", "Transpose", "Diagonal"}

ValidateKinds == BinaryKinds \cup UnaryKinds

\* virtual dispatch of Validate(isFinalValidationPass) over the node kind
Validate(k, a, b, la, lb, o, ol, final) ==
    CASE k = "Scale"              -> ScaleNodeValidate(a, b, la, lb, o, ol, final)
      [] k = "Times"              -> TimesNodeValidate(a, b, la, lb, o, ol, final)
      [] k = "TransposeTimes"     -> TransposeTimesNodeValidate(a, b, la, lb, o, ol, final)
      [] k = "RowElementTimes"    -> RowElementTimesNodeValidate(a, b, la, lb, o, ol, final)
      [] k = "ColumnElementTimes" -> ColumnElementTimesNodeValidate(a, b, la, lb, o, ol, final)
      [] k = "DiagTimes"          -> DiagTimesNodeValidate(a, b, la, lb, o, ol, final)
      [] k = "KhatriRaoProduct"   -> KhatriRaoProductNodeValidate(a, b, la, lb, o, ol, final)
      [] k = "CosDistance"        -> CosDistanceNodeValidate(a, b, la, lb, o, ol, final)
      [] k = "SumElements"        -> SumElementsNodeValidate(a, b, la, lb, o, ol, final)
      [] k = "SumColumnElements"  -> SumColumnElementsNodeValidate(a, b, la, lb, o, ol, final)
      [] k = "Transpose"          -> TransposeNodeValidate(a, b, la, lb, o, ol, final)
      [] k = "Diagonal"           -> DiagonalNodeValidate(a, b, la, lb, o, ol, final)

\* ---------------------------------------------------------------- the validation machine
ValidateShapes == {Shape(r, c) : r \in 0..MaxDim, c \in 0..MaxDim}

\* a node without control inputs, stride members and inverse norms
CtlIdle ==
    /\ in2 = NoShape
    /\ in3 = NoShape
    /\ val2 = <<>>
    /\ val3 = <<>>
    /\ grad2 = <<>>
    /\ grad3 = <<>>
    /\ pre2 = <<>>
    /\ pre3 = <<>>
    /\ m_strideDim = 0
    /\ m_stride = 1
    /\ m_invNorm0 = <<>>
    /\ m_invNorm1 = <<>>
    /\ nPar = 1
    /\ tIdx = 1

\* no scratch pool in play
PoolIdle ==
    /\ phase = <<>>
    /\ lease = <<>>
    /\ releasedMatrices = {}
    /\ allocated = 0
    /\ requested = <<>>
    /\ released = <<>>

ZipIdle ==
    /\ frame = "all"
    /\ gaps = {}
    /\ val0 = <<>>
    /\ val1 = <<>>
    /\ nodeVal = <<>>
    /\ nodeGrad = <<>>
    /\ grad0 = <<>>
    /\ grad1 = <<>>
    /\ pre0 = <<>>
    /\ pre1 = <<>>
    /\ branch = "none"

InitValidate ==
    /\ kind \in ValidateKinds
    /\ in0 \in ValidateShapes
    /\ lay0 \in BOOLEAN
    /\ IF kind \in BinaryKinds
       THEN in1 \in ValidateShapes /\ lay1 \in BOOLEAN
       ELSE in1 = NoShape /\ lay1 = FALSE
    /\ out = NoShape
    /\ outLay = FALSE
    /\ err = "none"
    /\ last = "none"
    /\ calls = 0
    /\ orig0 = in0
    /\ orig1 = in1
    /\ prev0 = in0
    /\ prev1 = in1
    /\ ZipIdle
    /\ CtlIdle
    /\ PoolIdle

ValidateCall(final) ==
    LET r == Validate(kind, in0, in1, lay0, lay1, out, outLay, final)
    IN  /\ in0' = r.in0
        /\ in1' = r.in1
        /\ out' = r.out
        /\ outLay' = r.outLay
        /\ err' = r.err
        /\ last' = IF final THEN "final" ELSE "nonfinal"
        /\ calls' = calls + 1
        /\ prev0' = in0
        /\ prev1' = in1
        /\ UNCHANGED <<kind, lay0, lay1, orig0, orig1, zipVars, ctlVars, poolVars>>

\* Validate(false): repeated by the network until the final pass is made
ValidateNonFinal ==
    /\ kind \in ValidateKinds
    /\ err = "none"
    /\ last \in {"none", "nonfinal"}
    /\ calls < MaxPasses - 1
    /\ ValidateCall(FALSE)

\* Validate(true): the final pass
ValidateFinal ==
    /\ kind \in ValidateKinds
    /\ err = "none"
    /\ last \in {"none", "nonfinal"}
    /\ ValidateCall(TRUE)

NextValidate == ValidateNonFinal \/ ValidateFinal

SpecValidate == InitValidate /\ [][NextValidate]_vars

\* ---------------------------------------------------------------- matrices
\* a matrix value is a function from its index pairs <<row, column>> (1-based)
Idx(sh) == (1..sh.rows) \X (1..sh.cols)

ConstMatrix(sh, v) == [p \in Idx(sh) |-> v]

\* the matrix whose entries count up along the rows from b + 1 (as [[1,2],[3,4]] for b = 0)
RowMajor(sh, b) == [p \in Idx(sh) |-> b + (p[1] - 1) * sh.cols + p[2]]

RECURSIVE SumSet(_, _)
SumSet(f, S) ==
    IF S = {} THEN 0
    ELSE LET x == CHOOSE y \in S : TRUE IN f[x] + SumSet(f, S \ {x})

\* Matrix::SumOfElements
SumOfElements(mat, sh) == SumSet(mat, Idx(sh))

\* Matrix::Reshaped(rows, cols): same storage (column-major), new dimensions
Reshaped(mat, from, to) ==
    [p \in Idx(to) |->
        LET k == (p[2] - 1) * to.rows + (p[1] - 1)
        IN  mat[<<(k % from.rows) + 1, (k \div from.rows) + 1>>]]

\* Matrix::ColumnSlice(start, n): columns start .. start+n-1 (0-based start)
ColumnSlice(mat, sh, start, n) ==
    [p \in Idx(Shape(sh.rows, n)) |-> mat[<<p[1], start + p[2]>>]]

\* the entry of a broadcasting operand that meets entry p of the result
Bcast(p, sh) == <<IF sh.rows = 1 THEN 1 ELSE p[1], IF sh.cols = 1 THEN 1 ELSE p[2]>>

MaxShape(sa, sb) == Shape(Max(sa.rows, sb.rows), Max(sa.cols, sb.cols))

\* Matrix::AssignSumOf (sign = 1) / AssignDifferenceOf (sign = -1): a + sign * b,
\* a scalar, column vector or row vector operand being broadcast
AssignSumOf(a, sa, b, sb, sign) ==
    [p \in Idx(MaxShape(sa, sb)) |-> a[Bcast(p, sa)] + sign * b[Bcast(p, sb)]]

\* MaskMissingGradientColumnsToZero(frameRange): the columns of the gradient
\* that are padding according to the node's MBLayout are set to zero
MaskMissingGradientColumnsToZero(g, sh, lay, gapCols) ==
    IF lay THEN [p \in Idx(sh) |-> IF p[2] \in gapCols THEN 0 ELSE g[p]] ELSE g

\* outcome of EvaluateThisNode: branch taken, error raised, the node's value
EvalRes(b, e, v) == [branch |-> b, err |-> e, val |-> v]

\* outcome of ComputeInputPartial: branch taken, error raised, the input's
\* gradient and the node's own gradient (which masking changes in place)
PartialRes(b, e, ig, g) == [branch |-> b, err |-> e, grad |-> ig, nodeGrad |-> g]

\* ---------------------------------------------------------------- Plus / Minus forward
\* the first three branches of EvaluateThisNode, shared by Plus (sign = 1) and
\* Minus (sign = -1); "none" when none of them applies
ZipEvaluateBranch(s0, s1) ==
    IF (s0.rows = s1.rows /\ s0.cols = s1.cols) \/ ((s0.rows = 1 \/ s1.rows = 1) /\ s0.cols = s1.cols)
    THEN "match"
    ELSE IF s0.cols = 1 /\ s1.rows % s0.rows = 0
         THEN "colvec0"
         ELSE IF s1.cols = 1 /\ s0.rows % s1.rows = 0
              THEN "colvec1"
              ELSE "none"

ZipEvaluateValue(b, s0, s1, v0, v1, sign) ==
    CASE b = "match" -> AssignSumOf(v0, s0, v1, s1, sign)
      [] b = "colvec0" ->
            LET r == Shape(s0.rows, (s1.rows * s1.cols) \div s0.rows)
            IN  Reshaped(AssignSumOf(v0, s0, Reshaped(v1, s1, r), r, sign), r, MaxShape(s0, s1))
      [] b = "colvec1" ->
            LET r == Shape(s1.rows, (s0.rows * s0.cols) \div s1.rows)
            IN  Reshaped(AssignSumOf(Reshaped(v0, s0, r), r, v1, s1, sign), r, MaxShape(s0, s1))

\* PlusNode::EvaluateThisNode without the test of m_pMBLayout in the tiling branch
PlusNodeEvaluateThisNodeNoLayoutTest(s0, s1, v0, v1, nv, lay) ==
    LET b == ZipEvaluateBranch(s0, s1)
    IN  IF b # "none"
        THEN EvalRes(b, "none", ZipEvaluateValue(b, s0, s1, v0, v1, 1))
        ELSE IF s1.cols < s0.cols /\ s0.rows = s1.rows /\ s0.cols % s1.cols = 0
             THEN LET ratio == s0.cols \div s1.cols
                  IN  EvalRes("tiling", "none",
                              [p \in Idx(s0) |-> v1[<<p[1], ((p[2] - 1) \div ratio) + 1>>] + v0[p]])
             ELSE EvalRes("none", "LogicError", nv)

PlusNodeEvaluateThisNode(s0, s1, v0, v1, nv, lay) ==
    LET b == ZipEvaluateBranch(s0, s1)
    IN  IF b # "none"
        THEN EvalRes(b, "none", ZipEvaluateValue(b, s0, s1, v0, v1, 1))
        ELSE IF s1.cols < s0.cols /\ s0.rows = s1.rows /\ s0.cols % s1.cols = 0
             THEN IF lay
                  THEN EvalRes("tiling", "InvalidArgument", nv)
                  ELSE LET ratio == s0.cols \div s1.cols
                       IN  EvalRes("tiling", "none",
                                   [p \in Idx(s0) |-> v1[<<p[1], ((p[2] - 1) \div ratio) + 1>>] + v0[p]])
             ELSE EvalRes("none", "LogicError", nv)

MinusNodeEvaluateThisNode(s0, s1, v0, v1, nv, lay) ==
    LET b == ZipEvaluateBranch(s0, s1)
    IN  IF b # "none"
        THEN EvalRes(b, "none", ZipEvaluateValue(b, s0, s1, v0, v1, -1))
        ELSE EvalRes("none", "LogicError", nv)

\* ---------------------------------------------------------------- Plus / Minus backward
\* PlusNode::ComputeInputPartial's chain with the scalar test placed after the column-vector test
PlusPartialBranchColumnFirst(sc, sp) ==
    IF sc.cols = sp.cols /\ sc.rows = sp.rows THEN "exact"
    ELSE IF sc.cols = 1 /\ sp.cols # 1 THEN "colvec"
    ELSE IF sc.cols = 1 /\ sc.rows = 1 THEN "scalar"
    ELSE IF sc.rows = 1 /\ sp.rows # 1 THEN "rowvec"
    ELSE IF sc.cols # 1 /\ sp.cols % sc.cols = 0 THEN "tiling"
    ELSE "none"

\* the if-chain of PlusNode::ComputeInputPartial over the child's shape sc
\* (rowsc x colsc) and the node's shape sp (rowsp x colsp)
PlusPartialBranch(sc, sp) ==
    IF sc.cols = sp.cols /\ sc.rows = sp.rows THEN "exact"
    ELSE IF sc.cols = 1 /\ sc.rows = 1 THEN "scalar"
    ELSE IF sc.cols = 1 /\ sp.cols # 1 THEN "colvec"
    ELSE IF sc.rows = 1 /\ sp.rows # 1 THEN "rowvec"
    ELSE IF sc.cols # 1 /\ sp.cols % sc.cols = 0 THEN "tiling"
    ELSE "none"

\* the if-chain of MinusNode::ComputeInputPartial
MinusPartialBranch(sc, sp) ==
    IF sc.cols = sp.cols /\ sc.rows = sp.rows THEN "exact"
    ELSE IF sc.cols = 1 /\ sc.rows = 1 THEN "scalar"
    ELSE IF sc.cols = 1 /\ sp.cols # 1 THEN "colvec"
    ELSE IF sc.rows = 1 /\ sp.rows # 1 THEN "rowvec"
    ELSE "none"

\* the accumulation done by branch b of ComputeInputPartial: ig is the child's
\* gradient, g the node's gradient, sign +1 or -1
ZipPartialAccumulate(b, sc, sp, ig, g, sign, lay, gapCols) ==
    CASE b = "exact" ->
            PartialRes(b, "none", [p \in Idx(sc) |-> ig[p] + sign * g[p]], g)
      [] b = "scalar" ->
            LET gm == MaskMissingGradientColumnsToZero(g, sp, lay, gapCols)
            IN  PartialRes(b, "none", [p \in Idx(sc) |-> ig[p] + sign * SumOfElements(gm, sp)], gm)
      [] b = "colvec" ->
            LET colspExpand == (sp.rows * sp.cols) \div sc.rows
                r == Shape(sc.rows, colspExpand)
                gm == MaskMissingGradientColumnsToZero(g, sp, lay, gapCols)
                gr == Reshaped(gm, sp, r)
            IN  PartialRes(b, "none",
                    [p \in Idx(sc) |-> ig[p] + sign * SumSet(gr, {p[1]} \X (1..colspExpand))], gm)
      [] b = "rowvec" ->
            PartialRes(b, "none",
                    [p \in Idx(sc) |-> ig[p] + sign * SumSet(g, (1..sp.rows) \X {p[2]})], g)
      [] b = "tiling" ->
            LET ratio == sp.cols \div sc.cols
                colspExpand == ((sp.rows * sp.cols) \div sc.rows) \div sc.cols
                r == Shape(sc.rows, colspExpand)
                tmp(i) == Reshaped(ColumnSlice(g, sp, i * ratio, ratio), Shape(sp.rows, ratio), r)
            IN  PartialRes(b, "none",
                    [p \in Idx(sc) |-> ig[p] + sign * SumSet(tmp(p[2] - 1), {p[1]} \X (1..colspExpand))], g)

PlusNodeComputeInputPartial(sc, sp, ig, g, inputIndex, lay, gapCols) ==
    LET b == PlusPartialBranch(sc, sp)
    IN  IF b = "none"
        THEN PartialRes(b, "RuntimeError", ig, g)
        ELSE ZipPartialAccumulate(b, sc, sp, ig, g, 1, lay, gapCols)

MinusNodeComputeInputPartial(sc, sp, ig, g, inputIndex, lay, gapCols) ==
    LET b == MinusPartialBranch(sc, sp)
        sign == IF inputIndex = 0 THEN 1 ELSE -1
    IN  IF b = "none"
        THEN PartialRes(b, "LogicError", ig, g)
        ELSE ZipPartialAccumulate(b, sc, sp, ig, g, sign, lay, gapCols)

\* ---------------------------------------------------------------- the Plus / Minus machine
ZipKinds == {"Plus", "Minus"}

ZipShapes == {Shape(r, c) : r \in 1..MaxRows, c \in 1..MaxCols}

\* values a padding column of the node's gradient may hold
PadValues == {0, 5}

InitZip ==
    /\ kind \in ZipKinds
    /\ in0 \in ZipShapes
    /\ in1 \in ZipShapes
    /\ lay0 \in BOOLEAN
    /\ lay1 \in BOOLEAN
    /\ out = MaxShape(in0, in1)
    /\ outLay = InferMBLayoutFromInputsForStandardCase(lay0, lay1)
    /\ lay0 => in0.cols = out.cols
    /\ lay1 => in1.cols = out.cols
    /\ frame \in (IF outLay THEN {"all", "single"} ELSE {"all"})
    /\ gaps \in (IF outLay THEN {{}} \cup {{c} : c \in 1..out.cols} ELSE {{}})
    /\ frame = "all" => gaps # 1..out.cols
    /\ val0 = RowMajor(in0, 2)
    /\ val1 = RowMajor(in1, 0)
    /\ nodeVal = ConstMatrix(out, 0)
    /\ \E gv \in {1, 2}, pv \in PadValues :
          nodeGrad = [p \in Idx(out) |-> IF p[2] \in gaps THEN pv ELSE gv]
    /\ \E pr \in {0, 1} :
          /\ grad0 = ConstMatrix(in0, pr)
          /\ grad1 = ConstMatrix(in1, pr)
    /\ pre0 = grad0
    /\ pre1 = grad1
    /\ branch = "none"
    /\ err = "none"
    /\ last = "none"
    /\ calls = 0
    /\ orig0 = in0
    /\ orig1 = in1
    /\ prev0 = in0
    /\ prev1 = in1
    /\ CtlIdle
    /\ PoolIdle

\* EvaluateThisNode(frameRange)
EvaluateThisNode ==
    /\ kind \in ZipKinds
    /\ last = "none"
    /\ LET r == IF kind = "Plus"
                THEN PlusNodeEvaluateThisNode(in0, in1, val0, val1, nodeVal, outLay)
                ELSE MinusNodeEvaluateThisNode(in0, in1, val0, val1, nodeVal, outLay)
       IN  /\ nodeVal' = r.val
           /\ branch' = r.branch
           /\ err' = r.err
    /\ last' = "eval"
    /\ UNCHANGED <<shapeVars, calls, orig0, orig1, prev0, prev1,
                   frame, gaps, val0, val1, nodeGrad, grad0, grad1, pre0, pre1,
                   ctlVars, poolVars>>

\* ComputeInputPartial(inputIndex, frameRange), after the node was evaluated
ComputeInputPartial ==
    /\ kind \in ZipKinds
    /\ last # "none"
    /\ err = "none"
    /\ calls < MaxGradCalls
    /\ \E inputIndex \in {0, 1} :
         LET sc == IF inputIndex = 0 THEN in0 ELSE in1
             ig == IF inputIndex = 0 THEN grad0 ELSE grad1
             r == IF kind = "Plus"
                  THEN PlusNodeComputeInputPartial(sc, out, ig, nodeGrad, inputIndex, outLay, gaps)
                  ELSE MinusNodeComputeInputPartial(sc, out, ig, nodeGrad, inputIndex, outLay, gaps)
         IN  /\ grad0' = IF inputIndex = 0 THEN r.grad ELSE grad0
             /\ grad1' = IF inputIndex = 1 THEN r.grad ELSE grad1
             /\ pre0' = grad0
             /\ pre1' = grad1
             /\ nodeGrad' = r.nodeGrad
             /\ branch' = r.branch
             /\ err' = r.err
             /\ last' = IF inputIndex = 0 THEN "grad0" ELSE "grad1"
    /\ calls' = calls + 1
    /\ UNCHANGED <<shapeVars, orig0, orig1, prev0, prev1, frame, gaps, val0, val1, nodeVal,
                   ctlVars, poolVars>>

NextZip == EvaluateThisNode \/ ComputeInputPartial

SpecZip == InitZip /\ [][NextZip]_vars

\* ---------------------------------------------------------------- claims on Validate

\* a dimension of an input is still zero/unknown; the column count of an input
\* with an MBLayout is given by the minibatch and does not count as unknown
Unresolved(sh, lay) == sh.rows = 0 \/ (sh.cols = 0 /\ ~lay)

ProductKinds == {"Times", "TransposeTimes", "KhatriRaoProduct", "DiagTimes"}

\* C1: for Times, TransposeTimes, KhatriRaoProduct and DiagTimes, Validate(true)
\* never returns successfully while a participating dimension of an input is
\* still zero/unknown.
C1_FinalPassResolvesDims ==
    (kind \in ProductKinds /\ last = "final" /\ err = "none")
        => (~Unresolved(in0, lay0) /\ ~Unresolved(in1, lay1))

\* C2: Validate(false) never raises a shape error (LogicError / RuntimeError of
\* a dimension check), whatever the node kind and the input shapes.
C2_NonFinalPassNeverFails ==
    last = "nonfinal" => err \notin {"LogicError", "RuntimeError"}

\* C3: TransposeTimes with A resolved (r x c, r, c > 0) and B's row count
\* unknown (0) with a known column count: after Validate(false) followed by
\* Validate(true), B's row count equals A's row count and the final pass succeeded.
C3_TransposeTimesConverges ==
    (/\ kind = "TransposeTimes" /\ last = "final" /\ calls = 2
     /\ orig0.rows > 0 /\ orig0.cols > 0
     /\ orig1.rows = 0 /\ orig1.cols > 0)
        => (err = "none" /\ in0 = orig0 /\ in1.rows = orig0.rows)

\* the dimensions handed to the final pass of Times are consistent
TimesDimsOk == prev0.rows # 0 /\ prev1.rows = prev0.cols /\ (prev1.cols # 0 \/ lay1)

LastIsPartial == last \in {"grad0", "grad1"}

ChildShape == IF last = "grad0" THEN in0 ELSE in1

ChildLay == IF last = "grad0" THEN lay0 ELSE lay1

ChildGrad == IF last = "grad0" THEN grad0 ELSE grad1

ChildPre == IF last = "grad0" THEN pre0 ELSE pre1

\* the five patterns of the broadcast table as predicates over the operand's
\* shape (rowsc x colsc) and the node's slice (rowsp x colsp)
IsExact(sc, sp) == sc.rows = sp.rows /\ sc.cols = sp.cols

IsScalar(sc, sp) == sc.rows = 1 /\ sc.cols = 1

IsColumnVector(sc, sp) == sc.cols = 1 /\ sp.cols # 1

IsRowVector(sc, sp) == sc.rows = 1 /\ sp.rows # 1

IsTiling(sc, sp) == sc.cols # 1 /\ sp.cols % sc.cols = 0

\* C5: Plus.ComputeGradient takes exactly the first pattern, in the order
\* exact, scalar, column vector, row vector, divisible-columns tiling, that the
\* operand's shape and the node's slice satisfy, and fails when none does.
C5_PlusPartialFirstMatch ==
    (kind = "Plus" /\ LastIsPartial) =>
        LET sc == ChildShape
            sp == out
        IN  /\ (branch = "exact") = IsExact(sc, sp)
            /\ (branch = "scalar") = (~IsExact(sc, sp) /\ IsScalar(sc, sp))
            /\ (branch = "colvec") =
                  (~IsExact(sc, sp) /\ ~IsScalar(sc, sp) /\ IsColumnVector(sc, sp))
            /\ (branch = "rowvec") =
                  (/\ ~IsExact(sc, sp) /\ ~IsScalar(sc, sp) /\ ~IsColumnVector(sc, sp)
                   /\ IsRowVector(sc, sp))
            /\ (branch = "tiling") =
                  (/\ ~IsExact(sc, sp) /\ ~IsScalar(sc, sp) /\ ~IsColumnVector(sc, sp)
                   /\ ~IsRowVector(sc, sp) /\ IsTiling(sc, sp))
            /\ (branch = "none") = (err # "none")
            /\ branch \in {"exact", "scalar", "colvec", "rowvec", "tiling", "none"}

\* a 1x1 operand against an N x M node with M > 1 satisfies the scalar, the
\* column-vector and the row-vector pattern, and the scalar branch handled it
C5_Witness ==
    /\ kind = "Plus" /\ LastIsPartial /\ branch = "scalar"
    /\ IsColumnVector(ChildShape, out) /\ IsRowVector(ChildShape, out)

\* the sum of the node's gradient over the columns that are not padding
ValidGradSum == SumSet(nodeGrad, (1..out.rows) \X ((1..out.cols) \ (IF outLay THEN gaps ELSE {})))

\* C6: scalar broadcast in Plus: with a 1x1 operand s and an N x M operand m,
\* Evaluate yields out[i][j] = s + m[i][j], and ComputeGradient for the scalar
\* operand adds the sum of the node's padding-masked gradient to its 1x1 gradient.
C6_PlusScalarBroadcast ==
    /\ (kind = "Plus" /\ last = "eval" /\ in0 = Shape(1, 1))
          => (err = "none" /\ nodeVal = [p \in Idx(in1) |-> val0[<<1, 1>>] + val1[p]])
    /\ (kind = "Plus" /\ last = "eval" /\ in1 = Shape(1, 1))
          => (err = "none" /\ nodeVal = [p \in Idx(in0) |-> val0[p] + val1[<<1, 1>>]])
    /\ (kind = "Plus" /\ LastIsPartial /\ ChildShape = Shape(1, 1) /\ ~ChildLay)
          => (err = "none" /\ ChildGrad[<<1, 1>>] = ChildPre[<<1, 1>>] + ValidGradSum)

\* a Plus node carries a layout and its operands match only the tiling pattern:
\* same row count, one column count a proper multiple (> 1) of the other (> 1)
TilingOnly ==
    /\ in0.rows = in1.rows
    /\ \/ (in1.cols > 1 /\ in0.cols > in1.cols /\ in0.cols % in1.cols = 0)
       \/ (in0.cols > 1 /\ in1.cols > in0.cols /\ in1.cols % in0.cols = 0)

\* C7: a Plus node with a layout evaluated on operands that match only the
\* tiling pattern fails and leaves its value untouched, and no call of a node
\* with a layout ever carries out the tiling pattern.
C7_PlusTilingRejectedUnderLayout ==
    /\ (kind = "Plus" /\ outLay /\ last = "eval" /\ TilingOnly)
          => (err # "none" /\ nodeVal = ConstMatrix(out, 0))
    /\ (kind = "Plus" /\ last # "none" /\ branch = "tiling" /\ err = "none") => ~outLay

\* the layout made Evaluate fail in the tiling branch
C7_Witness ==
    /\ kind = "Plus" /\ outLay /\ last = "eval" /\ TilingOnly
    /\ branch = "tiling" /\ err = "InvalidArgument"

\* C8: Minus accepts the shape combinations Plus accepts and selects the same
\* pattern, in Evaluate and in ComputeGradient.
C8_MinusSameTableAsPlus ==
    /\ (kind = "Minus" /\ last = "eval") =>
          LET r == PlusNodeEvaluateThisNode(in0, in1, val0, val1, ConstMatrix(out, 0), outLay)
          IN  branch = r.branch /\ (err = "none") = (r.err = "none")
    /\ (kind = "Minus" /\ LastIsPartial) =>
          /\ branch = PlusPartialBranch(ChildShape, out)
          /\ (err = "none") = (PlusPartialBranch(ChildShape, out) # "none")

\* C9: Evaluate or ComputeGradient of Plus or Minus reached with a shape
\* combination that matches no pattern raises LogicError and changes neither
\* a value nor a gradient.
C9_NoPatternIsLogicError ==
    (kind \in ZipKinds /\ last # "none" /\ branch = "none") =>
        /\ err = "LogicError"
        /\ (last = "eval" => nodeVal = ConstMatrix(out, 0))
        /\ (LastIsPartial => (grad0 = pre0 /\ grad1 = pre1))

\* C10: whenever ComputeGradient of Plus or Minus has summed the node's gradient
\* over minibatch columns into an operand without a frame axis (a 1x1 scalar or
\* a column vector; also in the matching-dimensions branch when the frame range
\* is a single frame), the padding columns of the node's gradient were zero.
C10_MaskedBeforeFrameReduction ==
    (/\ kind \in ZipKinds /\ LastIsPartial /\ err = "none"
     /\ outLay /\ ~ChildLay /\ ChildShape.cols = 1
     /\ (branch \in {"scalar", "colvec"} \/ (branch = "exact" /\ frame = "single")))
        => \A p \in Idx(out) : p[2] \in gaps => nodeGrad[p] = 0

\* ---------------------------------------------------------------- matrix products
MaxMat == 3

\* Matrix::AssignTransposeOf
AssignTransposeOf(a, sa) == [p \in Idx(Shape(sa.cols, sa.rows)) |-> a[<<p[2], p[1]>>]]

\* Matrix::AssignProductOf of an (m x k) by a (k x n) operand
AssignProductOf(a, sa, b, sb) ==
    [p \in Idx(Shape(sa.rows, sb.cols)) |->
        SumSet([k \in 1..sa.cols |-> a[<<p[1], k>>] * b[<<k, p[2]>>]], 1..sa.cols)]

\* Matrix::MultiplyAndAdd(a, transposeA, b, transposeB, c): c += op(a) * op(b)
MultiplyAndAdd(a, sa, transposeA, b, sb, transposeB, c) ==
    LET ea == IF transposeA THEN AssignTransposeOf(a, sa) ELSE a
        sea == IF transposeA THEN Shape(sa.cols, sa.rows) ELSE sa
        eb == IF transposeB THEN AssignTransposeOf(b, sb) ELSE b
        seb == IF transposeB THEN Shape(sb.cols, sb.rows) ELSE sb
        prod == AssignProductOf(ea, sea, eb, seb)
    IN  [p \in DOMAIN c |-> c[p] + prod[p]]

\* MaskedValueSlice(frameRange): the columns of the value that are padding
\* according to the node's MBLayout are set to zero (in place)
MaskMissingValuesColumnsToZero(v, sh, lay, gapCols) ==
    IF lay THEN [p \in Idx(sh) |-> IF p[2] \in gapCols THEN 0 ELSE v[p]] ELSE v

\* Matrix::SetValue(v)
SetValue(mat, v) == [p \in DOMAIN mat |-> v]

\* Matrix::SetDiagonalValue(vector): the diagonal entries are set from a column vector
SetDiagonalValue(mat, diag) ==
    [p \in DOMAIN mat |-> IF p[1] = p[2] THEN diag[<<p[1], 1>>] ELSE mat[p]]

\* outcome of Evaluate: error raised, the node's value, the inputs' values
\* (masking changes them in place)
NodeEval(e, nv, v0, v1) == [err |-> e, val |-> nv, val0 |-> v0, val1 |-> v1]

\* outcome of ComputeGradient: error raised, the gradient of input inputIndex,
\* the node's own gradient and input 1's value (masking changes them in place)
NodeGrad(e, ig, g, v1) == [err |-> e, grad |-> ig, nodeGrad |-> g, val1 |-> v1]

\* ---------------------------------------------------------------- Times
TimesNodeEvaluateThisNode(s0, s1, v0, v1) ==
    NodeEval("none", AssignProductOf(v0, s0, v1, s1), v0, v1)

\* TimesNode::ComputeInputPartial with the product assigned to, not added to, the gradient
TimesNodeComputeInputPartialAssign(inputIndex, s0, s1, so, v0, v1, g, ig, lay, lay1v, gapCols) ==
    LET zero == SetValue(ig, 0)
    IN  IF inputIndex = 0
        THEN LET sliceOutputGrad == MaskMissingGradientColumnsToZero(g, so, lay, gapCols)
                 sliceInput1Value == MaskMissingValuesColumnsToZero(v1, s1, lay1v, gapCols)
             IN  NodeGrad("none",
                          MultiplyAndAdd(sliceOutputGrad, so, FALSE, sliceInput1Value, s1, TRUE, zero),
                          sliceOutputGrad, sliceInput1Value)
        ELSE NodeGrad("none", MultiplyAndAdd(v0, s0, TRUE, g, so, FALSE, zero), g, v1)

TimesNodeComputeInputPartial(inputIndex, s0, s1, so, v0, v1, g, ig, lay, lay1v, gapCols) ==
    IF inputIndex = 0
    THEN LET sliceOutputGrad == MaskMissingGradientColumnsToZero(g, so, lay, gapCols)
             sliceInput1Value == MaskMissingValuesColumnsToZero(v1, s1, lay1v, gapCols)
         IN  NodeGrad("none",
                      MultiplyAndAdd(sliceOutputGrad, so, FALSE, sliceInput1Value, s1, TRUE, ig),
                      sliceOutputGrad, sliceInput1Value)
    ELSE NodeGrad("none", MultiplyAndAdd(v0, s0, TRUE, g, so, FALSE, ig), g, v1)

\* ---------------------------------------------------------------- Transpose
TransposeNodeEvaluateThisNodeNonLooping(s0, v0, v1) ==
    NodeEval("none", AssignTransposeOf(v0, s0), v0, v1)

TransposeNodeComputeInputPartialNonLooping(s0, so, g, ig, v1) ==
    LET ones == ConstMatrix(Shape(s0.rows, s0.rows), 1)
    IN  NodeGrad("none", MultiplyAndAdd(ones, Shape(s0.rows, s0.rows), FALSE, g, so, TRUE, ig), g, v1)

\* ---------------------------------------------------------------- Diagonal
\* EvaluateThisNode() on the whole minibatch; EvaluateThisNode(frameRange) is NOT_IMPLEMENTED
DiagonalNodeEvaluateThisNode(s0, v0, v1, nv, fr) ==
    IF fr = "all"
    THEN NodeEval("none", [p \in Idx(Shape(1, s0.cols)) |-> v0[<<p[2], p[2]>>]], v0, v1)
    ELSE NodeEval("NotImplemented", nv, v0, v1)

DiagonalNodeComputeInputPartialS(inputGradientValues, gradientValues, so) ==
    LET diag == Reshaped(gradientValues, so, Shape(so.cols, 1))
    IN  SetDiagonalValue(SetValue(inputGradientValues, 0), diag)

DiagonalNodeComputeInputPartial(inputIndex, so, g, ig, v1, fr) ==
    IF fr = "all"
    THEN IF inputIndex > 0
         THEN NodeGrad("InvalidArgument", ig, g, v1)
         ELSE NodeGrad("none", DiagonalNodeComputeInputPartialS(ig, g, so), g, v1)
    ELSE NodeGrad("NotImplemented", ig, g, v1)

\* ---------------------------------------------------------------- SumElements
\* SumElementsNode::EvaluateThisNode summing the unmasked slice
SumElementsNodeEvaluateThisNodeUnmasked(s0, v0, v1, lay0v, gapCols) ==
    NodeEval("none", ConstMatrix(Shape(1, 1), SumOfElements(v0, s0)), v0, v1)

SumElementsNodeEvaluateThisNode(s0, v0, v1, lay0v, gapCols) ==
    LET sliceInputValue == MaskMissingValuesColumnsToZero(v0, s0, lay0v, gapCols)
    IN  NodeEval("none", ConstMatrix(Shape(1, 1), SumOfElements(sliceInputValue, s0)),
                 sliceInputValue, v1)

SumElementsNodeComputeInputPartial(g, ig, v1) ==
    NodeGrad("none", [p \in DOMAIN ig |-> ig[p] + g[<<1, 1>>]], g, v1)

\* ---------------------------------------------------------------- frame slices
\* the columns a FrameRange denotes: all of them, or those of time step t of a
\* minibatch of S parallel sequences
SliceShape(sh, fr, S) == IF fr = "all" THEN sh ELSE Shape(sh.rows, S)

\* ValueSlice(frameRange) / GradientSlice(frameRange)
DataSlice(mat, sh, fr, t, S) ==
    IF fr = "all" THEN mat ELSE ColumnSlice(mat, sh, (t - 1) * S, S)

\* the matrix after its slice (a view on its columns) was assigned sl
WriteSlice(mat, sl, fr, t, S) ==
    IF fr = "all" THEN sl
    ELSE [p \in DOMAIN mat |->
            IF p[2] \in ((t - 1) * S + 1)..(t * S) THEN sl[<<p[1], p[2] - (t - 1) * S>>]
            ELSE mat[p]]

\* ---------------------------------------------------------------- StrideTimes
\* outcome of StrideTimesNode::EvaluateThisNode: error raised, the node's value
\* and shape, m_stride
StrideEval(e, nv, o, st) == [err |-> e, val |-> nv, out |-> o, stride |-> st]

\* StrideTimesNode::EvaluateThisNode with the columns of A taken contiguously
\* (j + k * T1) instead of at the stride (j * m_stride + k)
StrideTimesNodeEvaluateThisNodeContiguous(s0, s1, v0, v1, nv, strideDim, fr, t, S) ==
    LET ss1 == SliceShape(s1, fr, S)
        sliceInput1Value == DataSlice(v1, s1, fr, t, S)
        stride == ss1.cols
        so == IF strideDim = 0 THEN Shape(s0.rows \div S, s1.cols) ELSE Shape(s0.rows, s1.cols)
        resized == [p \in Idx(so) |-> IF p \in DOMAIN nv THEN nv[p] ELSE 0]
        T1 == s0.cols \div stride
        d == s0.rows
        mTmp1(k) == [p \in Idx(Shape(d, T1)) |-> v0[<<p[1], p[2] + (k - 1) * T1>>]]
        mTmp2(k) == ColumnSlice(sliceInput1Value, ss1, k - 1, 1)
        functionValues ==
            [p \in Idx(Shape(d, stride)) |->
                AssignProductOf(mTmp1(p[2]), Shape(d, T1), mTmp2(p[2]), Shape(s1.rows, 1))[<<p[1], 1>>]]
    IN  IF strideDim = 1 /\ T1 = s1.rows
        THEN StrideEval("none", WriteSlice(resized, functionValues, fr, t, S), so, stride)
        ELSE StrideEval("InvalidArgument", resized, so, stride)

StrideTimesNodeEvaluateThisNode(s0, s1, v0, v1, nv, strideDim, fr, t, S) ==
    LET ss1 == SliceShape(s1, fr, S)
        sliceInput1Value == DataSlice(v1, s1, fr, t, S)
        \* UpdateStride(sliceInput1Value)
        stride == ss1.cols
        \* Resize(rows0 / GetNumParallelSequences(), cols1) or Resize(rows0, cols1)
        so == IF strideDim = 0 THEN Shape(s0.rows \div S, s1.cols) ELSE Shape(s0.rows, s1.cols)
        resized == [p \in Idx(so) |-> IF p \in DOMAIN nv THEN nv[p] ELSE 0]
        mTmp2(k) == ColumnSlice(sliceInput1Value, ss1, k - 1, 1)
    IN  IF strideDim = 1
        THEN \* column stride
             LET T1 == s0.cols \div stride
                 d == s0.rows
                 mTmp1(k) == [p \in Idx(Shape(d, T1)) |-> v0[<<p[1], (p[2] - 1) * stride + k>>]]
                 functionValues ==
                     [p \in Idx(Shape(d, stride)) |->
                         AssignProductOf(mTmp1(p[2]), Shape(d, T1),
                                         mTmp2(p[2]), Shape(s1.rows, 1))[<<p[1], 1>>]]
             IN  IF T1 = s1.rows
                 THEN StrideEval("none", WriteSlice(resized, functionValues, fr, t, S), so, stride)
                 ELSE StrideEval("InvalidArgument", resized, so, stride)
        ELSE \* row stride
             LET T1 == s0.rows \div stride
                 d == s1.rows
                 mTmp1(k) == [p \in Idx(Shape(d, T1)) |-> v0[<<k + (p[2] - 1) * stride, p[1]>>]]
                 functionValues ==
                     [p \in Idx(Shape(T1, stride)) |->
                         AssignProductOf(AssignTransposeOf(mTmp1(p[2]), Shape(d, T1)), Shape(T1, d),
                                         mTmp2(p[2]), Shape(d, 1))[<<p[1], 1>>]]
             IN  IF d = s0.cols /\ T1 = so.rows
                 THEN StrideEval("none", WriteSlice(resized, functionValues, fr, t, S), so, stride)
                 ELSE StrideEval("InvalidArgument", resized, so, stride)

\* StrideTimesNode::ComputeInputPartial; uninit is what the memory of the
\* temporary that the row-stride left derivative resizes but never sets holds
StrideTimesNodeComputeInputPartial(inputIndex, s0, s1, so, v0, v1, g, ig, strideDim, fr, t, S, uninit) ==
    IF fr = "all" THEN NodeGrad("NotImplemented", ig, g, v1)
    ELSE IF inputIndex > 2 THEN NodeGrad("InvalidArgument", ig, g, v1)
    ELSE IF inputIndex = 2 THEN NodeGrad("none", ig, g, v1)
    ELSE
    LET sliceOutputGrad == DataSlice(g, so, fr, t, S)
        sso == SliceShape(so, fr, S)
        sliceInput1Value == DataSlice(v1, s1, fr, t, S)
        ss1 == SliceShape(s1, fr, S)
        seqOf(c) == ((c - 1) % S) + 1
        stepOf(c) == ((c - 1) \div S) + 1
    IN  IF strideDim = 1
        THEN LET r == s0.rows
                 T1 == s0.cols \div S
             IN  IF inputIndex = 0
                 THEN \* mTmp1 = 0; mTmp1 += mTmp3 * mTmp2'; column t*S+k of the gradient += column t of mTmp1
                      LET mTmp1(k) ==
                              MultiplyAndAdd(ColumnSlice(sliceOutputGrad, sso, k - 1, 1), Shape(sso.rows, 1), FALSE,
                                             ColumnSlice(sliceInput1Value, ss1, k - 1, 1), Shape(ss1.rows, 1), TRUE,
                                             ConstMatrix(Shape(r, T1), 0))
                      IN  IF sso.rows = r /\ ss1.rows = T1
                          THEN NodeGrad("none",
                                   [p \in DOMAIN ig |->
                                       IF stepOf(p[2]) <= T1
                                       THEN ig[p] + mTmp1(seqOf(p[2]))[<<p[1], stepOf(p[2])>>]
                                       ELSE ig[p]], g, v1)
                          ELSE NodeGrad("InvalidArgument", ig, g, v1)
                 ELSE \* column t of mTmp1 = column t*S+k of A; mTmp2 += mTmp1' * mTmp3
                      LET mTmp1(k) == [p \in Idx(Shape(r, T1)) |-> v0[<<p[1], (p[2] - 1) * S + k>>]]
                          sliceInput1Grad == DataSlice(ig, s1, fr, t, S)
                          mTmp2(k) ==
                              MultiplyAndAdd(mTmp1(k), Shape(r, T1), TRUE,
                                             ColumnSlice(sliceOutputGrad, sso, k - 1, 1), Shape(sso.rows, 1), FALSE,
                                             ColumnSlice(sliceInput1Grad, ss1, k - 1, 1))
                      IN  IF sso.rows = r /\ ss1.rows = T1
                          THEN NodeGrad("none",
                                   WriteSlice(ig, [p \in Idx(ss1) |-> mTmp2(p[2])[<<p[1], 1>>]], fr, t, S),
                                   g, v1)
                          ELSE NodeGrad("InvalidArgument", ig, g, v1)
        ELSE LET d == s1.rows
                 T1 == s0.rows \div S
             IN  IF inputIndex = 0
                 THEN \* mTmp1.Resize(d, T1); mTmp1 += mTmp2 * mTmp3'; row t*S+k of the gradient += column t of mTmp1
                      LET mTmp1(k) ==
                              MultiplyAndAdd(ColumnSlice(sliceInput1Value, ss1, k - 1, 1), Shape(ss1.rows, 1), FALSE,
                                             ColumnSlice(sliceOutputGrad, sso, k - 1, 1), Shape(sso.rows, 1), TRUE,
                                             ConstMatrix(Shape(d, T1), uninit))
                      IN  IF sso.rows = T1 /\ d = s0.cols
                          THEN NodeGrad("none",
                                   [p \in DOMAIN ig |->
                                       IF stepOf(p[1]) <= T1
                                       THEN ig[p] + mTmp1(seqOf(p[1]))[<<p[2], stepOf(p[1])>>]
                                       ELSE ig[p]], g, v1)
                          ELSE NodeGrad("InvalidArgument", ig, g, v1)
                 ELSE \* row t of mTmp1 = row t*S+k of A; mTmp2 += mTmp1' * mTmp3
                      LET mTmp1(k) == [p \in Idx(Shape(T1, d)) |-> v0[<<(p[1] - 1) * S + k, p[2]>>]]
                          sliceInput1Grad == DataSlice(ig, s1, fr, t, S)
                          mTmp2(k) ==
                              MultiplyAndAdd(mTmp1(k), Shape(T1, d), TRUE,
                                             ColumnSlice(sliceOutputGrad, sso, k - 1, 1), Shape(sso.rows, 1), FALSE,
                                             ColumnSlice(sliceInput1Grad, ss1, k - 1, 1))
                      IN  IF sso.rows = T1 /\ d = s0.cols
                          THEN NodeGrad("none",
                                   WriteSlice(ig, [p \in Idx(ss1) |-> mTmp2(p[2])[<<p[1], 1>>]], fr, t, S),
                                   g, v1)
                          ELSE NodeGrad("InvalidArgument", ig, g, v1)

\* ---------------------------------------------------------------- exact arithmetic
\* ElemType values of the similarity nodes are modelled as exact fractions
\* n / d in lowest terms (d > 0); operands are drawn with integral column norms
RECURSIVE GCD(_, _)
GCD(a, b) == IF b = 0 THEN a ELSE GCD(b, a % b)

Abs(x) == IF x < 0 THEN -x ELSE x

Rat(n, d) ==
    LET g == GCD(Abs(n), Abs(d))
        sgn == IF d < 0 THEN -1 ELSE 1
    IN  [n |-> sgn * (n \div g), d |-> sgn * (d \div g)]

RatOfInt(i) == [n |-> i, d |-> 1]

RatAdd(x, y) == Rat(x.n * y.d + y.n * x.d, x.d * y.d)

RatSub(x, y) == Rat(x.n * y.d - y.n * x.d, x.d * y.d)

RatMul(x, y) == Rat(x.n * y.n, x.d * y.d)

RatInv(x) == Rat(x.d, x.n)

\* the square root of a perfect square
ISqrt(n) == CHOOSE k \in 0..n : k * k = n

RatMatrix(mat) == [p \in DOMAIN mat |-> RatOfInt(mat[p])]

\* ---------------------------------------------------------------- row-vector primitives
\* Matrix::AssignVectorNorm2Of(a, isColWise = true): the 2-norm of each column
AssignVectorNorm2Of(a, sa) ==
    [p \in Idx(Shape(1, sa.cols)) |->
        RatOfInt(ISqrt(SumSet([i \in 1..sa.rows |-> a[<<i, p[2]>>] * a[<<i, p[2]>>]], 1..sa.rows)))]

\* Matrix::AssignElementInverseOf
AssignElementInverseOf(mat) == [p \in DOMAIN mat |-> RatInv(mat[p])]

\* Matrix::AssignInnerProductOf(a, b, isColWise = true): the inner product of each column pair
AssignInnerProductOf(a, b, sa) ==
    [p \in Idx(Shape(1, sa.cols)) |->
        RatOfInt(SumSet([i \in 1..sa.rows |-> a[<<i, p[2]>>] * b[<<i, p[2]>>]], 1..sa.rows))]

\* Matrix::AssignElementProductOf / ElementMultiplyWith
AssignElementProductOf(x, y) == [p \in DOMAIN x |-> RatMul(x[p], y[p])]

\* Matrix::RowElementMultiplyWith(row): every row is multiplied elementwise by a row vector
RowElementMultiplyWith(mat, row) == [p \in DOMAIN mat |-> RatMul(mat[p], row[<<1, p[2]>>])]

\* the column that lies shift columns to the right of column j, circularly in n columns
ShiftCol(j, shift, n) == ((j - 1 + shift) % n) + 1

\* Matrix::AssignElementProductOfWithShift(a, b, shift) of two row vectors
AssignElementProductOfWithShift(a, b, n, shift) ==
    [p \in Idx(Shape(1, n)) |-> RatMul(a[<<1, p[2]>>], b[<<1, ShiftCol(p[2], shift, n)>>])]

\* Matrix::AssignElementProductOfWithShiftNeg(a, b, shift, negnumber): row 0 pairs
\* the columns, row m >= 1 pairs column j of a with column j + shift + m - 1 of b
AssignElementProductOfWithShiftNeg(a, b, n, shift, negnumber) ==
    [p \in Idx(Shape(negnumber + 1, n)) |->
        IF p[1] = 1 THEN RatMul(a[<<1, p[2]>>], b[<<1, p[2]>>])
        ELSE RatMul(a[<<1, p[2]>>], b[<<1, ShiftCol(p[2], shift + p[1] - 2, n)>>])]

\* Matrix::AssignInnerProductOfWithShiftNeg(a, b, isColWise = true, shift, negnumber)
AssignInnerProductOfWithShiftNeg(a, b, sa, shift, negnumber) ==
    [p \in Idx(Shape(negnumber + 1, sa.cols)) |->
        LET jb == IF p[1] = 1 THEN p[2] ELSE ShiftCol(p[2], shift + p[1] - 2, sa.cols)
        IN  RatOfInt(SumSet([i \in 1..sa.rows |-> a[<<i, p[2]>>] * b[<<i, jb>>]], 1..sa.rows))]

\* Matrix::GetARowByIndex(a, index) (0-based index)
GetARowByIndex(a, n, index) == [p \in Idx(Shape(1, n)) |-> a[<<index + 1, p[2]>>]]

\* Matrix::ConductRowElementMultiplyWithShift(a, b, c, shift, bFirstmatrixfixed):
\* c(i, j) = a(0, j) * b(i, j + shift) or c(i, j) = a(0, j + shift) * b(i, j)
ConductRowElementMultiplyWithShift(a, b, sb, shift, bFirstmatrixfixed) ==
    [p \in Idx(sb) |->
        IF bFirstmatrixfixed
        THEN RatMul(a[<<1, p[2]>>], b[<<p[1], ShiftCol(p[2], shift, sb.cols)>>])
        ELSE RatMul(a[<<1, ShiftCol(p[2], shift, sb.cols)>>], b[p])]

\* Matrix::operator-
MatrixMinus(x, y) == [p \in DOMAIN x |-> RatSub(x[p], y[p])]

\* Matrix::operator+= (c += a): shapes must agree, a 1 x 1 operand is added to every element
PlusAssignOk(sc, sa) == sa = sc \/ sa = Shape(1, 1)

PlusAssign(c, a, sa) ==
    [p \in DOMAIN c |-> RatAdd(c[p], IF sa = Shape(1, 1) THEN a[<<1, 1>>] ELSE a[p])]

\* ---------------------------------------------------------------- CosDistance
\* outcome of Evaluate of a similarity node: error raised, the node's value
\* slice, the inverse norms left in m_invNorm0 / m_invNorm1
CosEval(e, nv, i0, i1) == [err |-> e, val |-> nv, invNorm0 |-> i0, invNorm1 |-> i1]

CosDistanceNodeEvaluateThisNodeS(s0, in0v, in1v) ==
    LET invNorm0 == AssignElementInverseOf(AssignVectorNorm2Of(in0v, s0))
        invNorm1 == AssignElementInverseOf(AssignVectorNorm2Of(in1v, s0))
        functionValues ==
            AssignElementProductOf(
                AssignElementProductOf(AssignInnerProductOf(in0v, in1v, s0), invNorm0), invNorm1)
    IN  CosEval("none", functionValues, invNorm0, invNorm1)

CosDistanceNodeComputeInputPartialS(inputIndex, invNorm0, invNorm1, functionValues, in0v, in1v, gradientValues, inputGradientValues) ==
    LET temp1 == AssignElementProductOf(
                     IF inputIndex = 0 THEN AssignElementProductOf(invNorm0, invNorm0)
                                       ELSE AssignElementProductOf(invNorm1, invNorm1),
                     functionValues)
        rightTerm == RowElementMultiplyWith(RatMatrix(IF inputIndex # 0 THEN in1v ELSE in0v), temp1)
        temp2 == AssignElementProductOf(invNorm0, invNorm1)
        leftTerm == RowElementMultiplyWith(RatMatrix(IF inputIndex # 0 THEN in0v ELSE in1v), temp2)
        scaled == RowElementMultiplyWith(MatrixMinus(leftTerm, rightTerm), gradientValues)
    IN  [p \in DOMAIN inputGradientValues |-> RatAdd(inputGradientValues[p], scaled[p])]

\* ComputeInputPartial(inputIndex, frameRange) of CosDistanceNode
CosDistanceNodeComputeInputPartial(inputIndex, fr, invNorm0, invNorm1, functionValues, in0v, in1v, g, ig, v1) ==
    IF fr = "all" /\ inputIndex > 1
    THEN NodeGrad("InvalidArgument", ig, g, v1)
    ELSE NodeGrad("none",
                  CosDistanceNodeComputeInputPartialS(inputIndex, invNorm0, invNorm1, functionValues,
                                                      in0v, in1v, g, ig),
                  g, v1)

\* ---------------------------------------------------------------- CosDistanceWithNegativeSamples
\* EvaluateThisNodeS with invNorm0 taken for both operands
CosDistanceWithNegativeSamplesNodeEvaluateThisNodeSOneNorm(s0, in0v, in1v, shift, negNumber) ==
    LET invNorm0 == AssignElementInverseOf(AssignVectorNorm2Of(in0v, s0))
        invNorm1 == AssignElementInverseOf(AssignVectorNorm2Of(in1v, s0))
        leftTermTemp == AssignElementProductOfWithShiftNeg(invNorm0, invNorm0, s0.cols, shift, negNumber)
        rightTermTemp == AssignInnerProductOfWithShiftNeg(in0v, in1v, s0, shift, negNumber)
    IN  CosEval("none", AssignElementProductOf(leftTermTemp, rightTermTemp), invNorm0, invNorm1)

CosDistanceWithNegativeSamplesNodeEvaluateThisNodeS(s0, in0v, in1v, shift, negNumber) ==
    LET invNorm0 == AssignElementInverseOf(AssignVectorNorm2Of(in0v, s0))
        invNorm1 == AssignElementInverseOf(AssignVectorNorm2Of(in1v, s0))
        leftTermTemp == AssignElementProductOfWithShiftNeg(invNorm0, invNorm1, s0.cols, shift, negNumber)
        rightTermTemp == AssignInnerProductOfWithShiftNeg(in0v, in1v, s0, shift, negNumber)
    IN  CosEval("none", AssignElementProductOf(leftTermTemp, rightTermTemp), invNorm0, invNorm1)

\* the matrix added to the gradient by iteration m of the loop of ComputeInputPartialS
CosNegTerm(inputIndex, m, invNorm0, invNorm1, functionValues, in0r, in1r, s0, shift, thisGradientValues) ==
    LET numCols == s0.cols
        row == GetARowByIndex(functionValues, numCols, m)
        gradRow == GetARowByIndex(thisGradientValues, numCols, m)
    IN  IF inputIndex = 0
        THEN LET invNormSquare == AssignElementProductOf(invNorm0, invNorm0)
                 rightTerm == ConductRowElementMultiplyWithShift(
                                  AssignElementProductOf(row, invNormSquare), in0r, s0, 0, TRUE)
                 currshift == m + shift - 1
                 leftTerm ==
                     IF m = 0
                     THEN ConductRowElementMultiplyWithShift(
                              AssignElementProductOf(invNorm0, invNorm1), in1r, s0, 0, TRUE)
                     ELSE ConductRowElementMultiplyWithShift(
                              AssignElementProductOfWithShift(invNorm0, invNorm1, numCols, currshift),
                              in1r, s0, currshift, TRUE)
             IN  ConductRowElementMultiplyWithShift(gradRow, MatrixMinus(leftTerm, rightTerm), s0, 0, TRUE)
        ELSE LET invNormSquare == AssignElementProductOf(invNorm1, invNorm1)
             IN  IF m = 0
                 THEN LET rightTerm == ConductRowElementMultiplyWithShift(
                                           AssignElementProductOf(row, invNormSquare), in1r, s0, 0, TRUE)
                          leftTerm == ConductRowElementMultiplyWithShift(
                                          AssignElementProductOf(invNorm0, invNorm1), in0r, s0, 0, TRUE)
                      IN  ConductRowElementMultiplyWithShift(
                              gradRow, MatrixMinus(leftTerm, rightTerm), s0, 0, TRUE)
                 ELSE LET currshift == (m + shift - 1) % numCols
                          reverseshift == numCols - currshift
                          rightTerm == ConductRowElementMultiplyWithShift(
                                           AssignElementProductOfWithShift(invNormSquare, row, numCols, reverseshift),
                                           in1r, s0, 0, TRUE)
                          leftTerm == ConductRowElementMultiplyWithShift(
                                          AssignElementProductOfWithShift(invNorm1, invNorm0, numCols, reverseshift),
                                          in0r, s0, reverseshift, TRUE)
                      IN  ConductRowElementMultiplyWithShift(
                              gradRow, MatrixMinus(leftTerm, rightTerm), s0, reverseshift, FALSE)

CosDistanceWithNegativeSamplesNodeComputeInputPartialS(inputIndex, invNorm0, invNorm1, functionValues, in0v, in1v, s0, shift, negNumber, inputGradientValues, sg, thisGradientValues, v1) ==
    LET in0r == RatMatrix(in0v)
        in1r == RatMatrix(in1v)
        acc[m \in 0..(negNumber + 1)] ==
            IF m = 0 THEN inputGradientValues
            ELSE PlusAssign(acc[m - 1],
                            CosNegTerm(inputIndex, m - 1, invNorm0, invNorm1, functionValues,
                                       in0r, in1r, s0, shift, thisGradientValues), s0)
    IN  IF PlusAssignOk(sg, s0)
        THEN NodeGrad("none", acc[negNumber + 1], thisGradientValues, v1)
        ELSE NodeGrad("InvalidArgument", inputGradientValues, thisGradientValues, v1)

\* ComputeInputPartial(inputIndex, frameRange): ComputeInputPartialMap tests
\* inputIndex, the per-frame path does not
CosDistanceWithNegativeSamplesNodeComputeInputPartial(inputIndex, fr, invNorm0, invNorm1, functionValues, in0v, in1v, s0, shift, negNumber, ig, sg, g, v1) ==
    IF fr = "all" /\ inputIndex > 1
    THEN NodeGrad("InvalidArgument", ig, g, v1)
    ELSE CosDistanceWithNegativeSamplesNodeComputeInputPartialS(inputIndex, invNorm0, invNorm1, functionValues,
                                                                in0v, in1v, s0, shift, negNumber, ig, sg, g, v1)

CosDistanceWithNegativeSamplesNodeValidate(a, b, la, lb, o, ol, final, negNumber) ==
    LET a1 == ValidateInferChildDims(a, IF a.rows = 0 THEN b.rows ELSE a.rows,
                                        IF a.cols = 0 THEN b.cols ELSE a.cols)
        b1 == ValidateInferChildDims(b, IF b.rows = 0 THEN a1.rows ELSE b.rows,
                                        IF b.cols = 0 THEN a1.cols ELSE b.cols)
    IN  IF final /\ (b1.rows # a1.rows \/ b1.cols # a1.cols)
        THEN Res(a1, b1, o, ol, "LogicError")
        ELSE Res(a1, b1, Shape(negNumber + 1, b1.cols),
                 InferMBLayoutFromInputsForStandardCase(la, lb), "none")

\* ---------------------------------------------------------------- StrideTimes Validate
StrideRes(a, b, o, ol, e, sd) ==
    [in0 |-> a, in1 |-> b, out |-> o, outLay |-> ol, err |-> e, strideDim |-> sd]

\* StrideTimesNode::Validate; s2 / v2 are the shape and value of Inputs(2),
\* sd and stride the members m_strideDim and m_stride as the call finds them
StrideTimesNodeValidate(a, b, lb, o, ol, final, s2, v2, sd, stride) ==
    IF s2.rows * s2.cols # 1 THEN StrideRes(a, b, o, ol, "RuntimeError", sd)
    ELSE LET strideDim == v2[<<1, 1>>]
         IN  IF strideDim # 0 /\ strideDim # 1
             THEN StrideRes(a, b, o, ol, "RuntimeError", strideDim)
             ELSE IF strideDim = 0
             THEN IF final /\ b.rows # a.cols
                  THEN StrideRes(a, b, o, ol, "RuntimeError", strideDim)
                  ELSE StrideRes(a, b, Shape(a.rows \div stride, b.cols), lb, "none", strideDim)
             ELSE IF final /\ a.cols # b.rows * stride
                  THEN StrideRes(a, b, o, ol, "RuntimeError", strideDim)
                  ELSE StrideRes(a, b, Shape(a.rows, b.cols), lb, "none", strideDim)


\* ---------------------------------------------------------------- DiagTimes, ColumnElementTimes
\* Matrix::ColumnElementMultiplyWith: every column is multiplied element-wise by a column vector
ColumnElementMultiplyWith(mat, col) == [p \in DOMAIN mat |-> mat[p] * col[<<p[1], 1>>]]

\* Matrix::AssignInnerProductOf(a, b, isColWise = false): per row, the inner
\* product of the two rows, a sum over the columns
AssignInnerProductOfRows(a, b, sa) ==
    [p \in Idx(Shape(sa.rows, 1)) |->
        SumSet([j \in 1..sa.cols |-> a[<<p[1], j>>] * b[<<p[1], j>>]], 1..sa.cols)]

\* Matrix::operator+= on integer matrices of one shape
MatrixPlusAssign(c, a) == [p \in DOMAIN c |-> c[p] + a[p]]

DiagTimesNodeEvaluateThisNode(v0, v1) ==
    NodeEval("none", ColumnElementMultiplyWith(v1, v0), v0, v1)

DiagTimesNodeComputeInputPartial(inputIndex, s1, so, v0, v1, g, ig, lay, lay1v, gapCols) ==
    IF inputIndex = 0
    THEN \* ComputeInputPartialLeft on GradientSlice and Inputs(1)->ValueSlice
         LET temp == AssignInnerProductOfRows(g, v1, so)
         IN  NodeGrad("none", MatrixPlusAssign(ig, temp), g, v1)
    ELSE \* ComputeInputPartialRight
         NodeGrad("none", MatrixPlusAssign(ig, ColumnElementMultiplyWith(g, v0)), g, v1)

ColumnElementTimesNodeEvaluateThisNode(v0, v1) ==
    NodeEval("none", ColumnElementMultiplyWith(v0, v1), v0, v1)

\* ComputeInputPartialMap and ComputeInputPartial(frameRange) hand the same
\* operands (of the whole minibatch or of the frame) to LeftS / RightS
ColumnElementTimesNodeComputeInputPartial(inputIndex, so, v0, v1, g, ig) ==
    IF inputIndex = 0
    THEN \* ComputeInputPartialLeftS
         NodeGrad("none", MatrixPlusAssign(ig, ColumnElementMultiplyWith(g, v1)), g, v1)
    ELSE \* ComputeInputPartialRightS
         NodeGrad("none", MatrixPlusAssign(ig, AssignInnerProductOfRows(g, v0, so)), g, v1)

\* ---------------------------------------------------------------- the node machine
\* one node between its inputs and its consumers: Evaluate, then ComputeGradient
\* per input, on the all-frames FrameRange or on the one of a single time step
MatKinds == {"Times", "Transpose", "Diagonal", "SumElements", "DiagTimes", "ColumnElementTimes"}

CosKinds == {"CosDistance", "CosDistanceWithNegativeSamples"}

MaxNeg == 1

NodeIdle ==
    /\ branch = "none"
    /\ err = "none"
    /\ last = "none"
    /\ calls = 0
    /\ orig0 = in0
    /\ orig1 = in1
    /\ prev0 = in0
    /\ prev1 = in1
    /\ pre0 = grad0
    /\ pre1 = grad1
    /\ pre2 = grad2
    /\ pre3 = grad3
    /\ PoolIdle

\* a matrix counting up along the rows whose padding columns hold pv
Padded(sh, b, lay, gapCols, pv) ==
    [p \in Idx(sh) |-> IF lay /\ p[2] \in gapCols THEN pv ELSE RowMajor(sh, b)[p]]

MatShapes == {Shape(r, c) : r \in 1..MaxMat, c \in 1..MaxMat}

InitMat ==
    /\ kind \in MatKinds
    /\ in0 \in MatShapes
    /\ in1 \in (IF kind \in {"Times", "DiagTimes", "ColumnElementTimes"} THEN MatShapes ELSE {NoShape})
    /\ lay0 \in (IF kind \in {"SumElements", "ColumnElementTimes"} THEN BOOLEAN ELSE {FALSE})
    /\ lay1 \in (IF kind \in {"Times", "DiagTimes"} THEN BOOLEAN ELSE {FALSE})
    /\ kind = "Diagonal" => in0.rows = in0.cols
    /\ LET v == Validate(kind, in0, in1, lay0, lay1, NoShape, FALSE, TRUE)
       IN  /\ v.err = "none"
           /\ v.in0 = in0
           /\ v.in1 = in1
           /\ out = v.out
           /\ outLay = v.outLay
    /\ frame \in (IF lay0 \/ lay1 THEN {"all", "single"} ELSE {"all"})
    /\ LET layCols == IF lay0 THEN in0.cols ELSE in1.cols
       IN  /\ gaps \in (IF lay0 \/ lay1 THEN {{}} \cup {{c} : c \in 1..layCols} ELSE {{}})
           /\ (frame = "all" /\ (lay0 \/ lay1)) => gaps # 1..layCols
    /\ \E pv \in PadValues :
          /\ gaps = {} => pv = 0
          /\ val0 = Padded(in0, 0, lay0, gaps, pv)
          /\ val1 = Padded(in1, 1, lay1, gaps, pv)
          /\ nodeGrad = Padded(out, 0, outLay, gaps, pv)
    /\ nodeVal = ConstMatrix(out, 0)
    /\ \E pr \in {0, 1} :
          /\ grad0 = ConstMatrix(in0, pr)
          /\ grad1 = ConstMatrix(in1, pr)
    /\ CtlIdle
    /\ NodeIdle

\* StrideTimes: S parallel sequences of T time steps; B has S * T columns, the
\* left operand s * T1 columns (column stride) or rows (row stride), s being the
\* columns of B or those of one time step
InitStride ==
    /\ kind = "StrideTimes"
    /\ \E sd \in {0, 1}, S \in 1..MaxDim, T \in 1..MaxDim, T1 \in 1..MaxDim, d \in 1..MaxDim :
        \E s \in {S, S * T} :
          /\ m_strideDim = sd
          /\ nPar = S
          /\ in1 = (IF sd = 1 THEN Shape(T1, S * T) ELSE Shape(d, S * T))
          /\ in0 = (IF sd = 1 THEN Shape(d, s * T1) ELSE Shape(s * T1, d))
          /\ frame \in {"all", "single"}
          /\ tIdx \in (IF frame = "all" THEN {1} ELSE 1..T)
    /\ m_stride = 1
    /\ in2 = Shape(1, 1)
    /\ val2 = ConstMatrix(in2, m_strideDim)
    /\ grad2 = ConstMatrix(in2, 0)
    /\ in3 = NoShape
    /\ val3 = <<>>
    /\ grad3 = <<>>
    /\ m_invNorm0 = <<>>
    /\ m_invNorm1 = <<>>
    /\ lay0 = FALSE
    /\ lay1 = TRUE
    /\ LET v == StrideTimesNodeValidate(in0, in1, lay1, NoShape, FALSE, FALSE, in2, val2,
                                        m_strideDim, m_stride)
       IN  /\ out = v.out
           /\ outLay = v.outLay
    /\ gaps = {}
    /\ val0 = RowMajor(in0, 0)
    /\ val1 = RowMajor(in1, 1)
    /\ nodeVal = ConstMatrix(out, 0)
    /\ nodeGrad = RowMajor(StrideTimesNodeEvaluateThisNode(in0, in1, val0, val1, nodeVal,
                                                           m_strideDim, frame, tIdx, nPar).out, 0)
    /\ \E pr \in {0, 1} :
          /\ grad0 = ConstMatrix(in0, pr)
          /\ grad1 = ConstMatrix(in1, pr)
    /\ NodeIdle

\* operand columns with an integral 2-norm: "two" has one entry 2 per column,
\* "five" the entries 3, 4 or 4, -3 (a single row: -3 or 5), "one" one entry -1
CosOperand(name, sh) ==
    [p \in Idx(sh) |->
        CASE name = "two" -> IF p[1] = ((p[2] - 1) % sh.rows) + 1 THEN 2 ELSE 0
          [] name = "one" -> IF p[1] = (p[2] % sh.rows) + 1 THEN -1 ELSE 0
          [] name = "five" ->
                IF sh.rows = 1 THEN (IF p[2] % 2 = 1 THEN -3 ELSE 5)
                ELSE IF p[1] = 1 THEN (IF p[2] % 2 = 1 THEN 3 ELSE 4)
                ELSE IF p[1] = 2 THEN (IF p[2] % 2 = 1 THEN 4 ELSE -3)
                ELSE 0]

CosShapes == {Shape(r, c) : r \in 1..MaxDim, c \in 1..MaxMat}

\* the similarity nodes on the slice of one FrameRange; the control inputs of
\* CosDistanceWithNegativeSamples are single elements or (Validate does not
\* test them) shaped like the operands
InitCos ==
    /\ kind \in CosKinds
    /\ in0 \in CosShapes
    /\ in1 = in0
    /\ lay0 = TRUE
    /\ lay1 = TRUE
    /\ frame \in {"all", "single"}
    /\ gaps = {}
    /\ \E ops \in {<<"two", "five">>, <<"five", "one">>} :
          /\ val0 = CosOperand(ops[1], in0)
          /\ val1 = CosOperand(ops[2], in1)
    /\ IF kind = "CosDistance"
       THEN /\ in2 = NoShape
            /\ in3 = NoShape
            /\ val2 = <<>>
            /\ val3 = <<>>
            /\ grad2 = <<>>
            /\ grad3 = <<>>
            /\ LET v == CosDistanceNodeValidate(in0, in1, lay0, lay1, NoShape, FALSE, TRUE)
               IN  out = v.out /\ outLay = v.outLay
       ELSE /\ in2 \in {Shape(1, 1), in0}
            /\ in3 = in2
            /\ \E shift \in 0..MaxNeg, negNumber \in 0..MaxNeg :
                  /\ val2 = ConstMatrix(in2, shift)
                  /\ val3 = ConstMatrix(in3, negNumber)
                  /\ LET v == CosDistanceWithNegativeSamplesNodeValidate(
                                  in0, in1, lay0, lay1, NoShape, FALSE, TRUE, negNumber)
                     IN  out = v.out /\ outLay = v.outLay
            /\ grad2 = RatMatrix(ConstMatrix(in2, 0))
            /\ grad3 = RatMatrix(ConstMatrix(in3, 0))
    /\ nodeVal = RatMatrix(ConstMatrix(out, 0))
    /\ nodeGrad = RatMatrix(RowMajor(out, 0))
    /\ \E pr \in {0, 1} :
          /\ grad0 = RatMatrix(ConstMatrix(in0, pr))
          /\ grad1 = RatMatrix(ConstMatrix(in1, pr))
    /\ m_strideDim = 0
    /\ m_stride = 1
    /\ m_invNorm0 = <<>>
    /\ m_invNorm1 = <<>>
    /\ nPar = 1
    /\ tIdx = 1
    /\ NodeIdle

\* Get00Element of the control inputs
Get00Element(mat) == mat[<<1, 1>>]

\* virtual dispatch of EvaluateThisNode(frameRange) for the matrix kinds
MatEvaluate ==
    CASE kind = "Times" -> TimesNodeEvaluateThisNode(in0, in1, val0, val1)
      [] kind = "Transpose" -> TransposeNodeEvaluateThisNodeNonLooping(in0, val0, val1)
      [] kind = "Diagonal" -> DiagonalNodeEvaluateThisNode(in0, val0, val1, nodeVal, frame)
      [] kind = "SumElements" -> SumElementsNodeEvaluateThisNode(in0, val0, val1, lay0, gaps)
      [] kind = "DiagTimes" -> DiagTimesNodeEvaluateThisNode(val0, val1)
      [] kind = "ColumnElementTimes" -> ColumnElementTimesNodeEvaluateThisNode(val0, val1)

CosEvaluate ==
    IF kind = "CosDistance"
    THEN CosDistanceNodeEvaluateThisNodeS(in0, val0, val1)
    ELSE CosDistanceWithNegativeSamplesNodeEvaluateThisNodeS(
             in0, val0, val1, Get00Element(val2), Get00Element(val3))

\* Evaluate(frameRange)
Evaluate ==
    /\ kind \in MatKinds \cup CosKinds \cup {"StrideTimes"}
    /\ last \in {"none", "final"}
    /\ err = "none"
    /\ CASE kind \in MatKinds ->
              LET r == MatEvaluate
              IN  /\ nodeVal' = r.val
                  /\ val0' = r.val0
                  /\ val1' = r.val1
                  /\ err' = r.err
                  /\ UNCHANGED <<out, m_stride, m_invNorm0, m_invNorm1>>
         [] kind = "StrideTimes" ->
              LET r == StrideTimesNodeEvaluateThisNode(in0, in1, val0, val1, nodeVal,
                                                       m_strideDim, frame, tIdx, nPar)
              IN  /\ nodeVal' = r.val
                  /\ out' = r.out
                  /\ m_stride' = r.stride
                  /\ err' = r.err
                  /\ UNCHANGED <<val0, val1, m_invNorm0, m_invNorm1>>
         [] kind \in CosKinds ->
              LET r == CosEvaluate
              IN  /\ nodeVal' = r.val
                  /\ m_invNorm0' = r.invNorm0
                  /\ m_invNorm1' = r.invNorm1
                  /\ err' = r.err
                  /\ UNCHANGED <<out, m_stride, val0, val1>>
    /\ last' = "eval"
    /\ UNCHANGED <<kind, in0, in1, lay0, lay1, outLay, calls, orig0, orig1, prev0, prev1,
                   frame, gaps, nodeGrad, grad0, grad1, pre0, pre1, branch,
                   in2, in3, val2, val3, grad2, grad3, pre2, pre3, m_strideDim, nPar, tIdx,
                   poolVars>>

\* the inputs ComputeGradient may be asked about
InputIndexes ==
    CASE kind \in {"Times", "DiagTimes", "ColumnElementTimes"} -> {0, 1}
      [] kind \in {"Transpose", "SumElements"} -> {0}
      [] kind = "Diagonal" -> {0, 1}
      [] kind = "StrideTimes" -> {0, 1, 2}
      [] kind = "CosDistance" -> {0, 1}
      [] kind = "CosDistanceWithNegativeSamples" -> {0, 1, 2, 3}

InputShape(i) == CASE i = 0 -> in0 [] i = 1 -> in1 [] i = 2 -> in2 [] i = 3 -> in3

InputGrad(i) == CASE i = 0 -> grad0 [] i = 1 -> grad1 [] i = 2 -> grad2 [] i = 3 -> grad3

InputPre(i) == CASE i = 0 -> pre0 [] i = 1 -> pre1 [] i = 2 -> pre2 [] i = 3 -> pre3

\* what the memory of a matrix that was resized but never set may hold
Garbage == {0, 7}

\* virtual dispatch of ComputeInputPartial(inputIndex, frameRange) adding into ig
GradResult(inputIndex, ig, uninit) ==
    CASE kind = "Times" ->
             TimesNodeComputeInputPartial(inputIndex, in0, in1, out, val0, val1, nodeGrad, ig,
                                          outLay, lay1, gaps)
      [] kind = "Transpose" ->
             TransposeNodeComputeInputPartialNonLooping(in0, out, nodeGrad, ig, val1)
      [] kind = "Diagonal" ->
             DiagonalNodeComputeInputPartial(inputIndex, out, nodeGrad, ig, val1, frame)
      [] kind = "SumElements" ->
             SumElementsNodeComputeInputPartial(nodeGrad, ig, val1)
      [] kind = "DiagTimes" ->
             DiagTimesNodeComputeInputPartial(inputIndex, in1, out, val0, val1, nodeGrad, ig,
                                              outLay, lay1, gaps)
      [] kind = "ColumnElementTimes" ->
             ColumnElementTimesNodeComputeInputPartial(inputIndex, out, val0, val1, nodeGrad, ig)
      [] kind = "StrideTimes" ->
             StrideTimesNodeComputeInputPartial(inputIndex, in0, in1, out, val0, val1, nodeGrad, ig,
                                                m_strideDim, frame, tIdx, nPar, uninit)
      [] kind = "CosDistance" ->
             CosDistanceNodeComputeInputPartial(inputIndex, frame, m_invNorm0, m_invNorm1, nodeVal,
                                                val0, val1, nodeGrad, ig, val1)
      [] kind = "CosDistanceWithNegativeSamples" ->
             CosDistanceWithNegativeSamplesNodeComputeInputPartial(
                 inputIndex, frame, m_invNorm0, m_invNorm1, nodeVal, val0, val1, in0,
                 Get00Element(val2), Get00Element(val3), ig, InputShape(inputIndex), nodeGrad, val1)

\* the input the backward pass has reached: the inputs are visited in order
\* (-1 before the first ComputeGradient)
LastInput ==
    CASE last = "grad0" -> 0 [] last = "grad1" -> 1 [] last = "grad2" -> 2 [] last = "grad3" -> 3
      [] OTHER -> -1

\* ComputeGradient(inputIndex, frameRange), after the node was evaluated; the
\* backward pass asks about each input once, in the order of the inputs
ComputeGradient ==
    /\ kind \in MatKinds \cup CosKinds \cup {"StrideTimes"}
    /\ last # "none"
    /\ err = "none"
    /\ calls < MaxGradCalls
    /\ \E inputIndex \in InputIndexes, uninit \in (IF kind = "StrideTimes" THEN Garbage ELSE {0}) :
         LET r == GradResult(inputIndex, InputGrad(inputIndex), uninit)
         IN  /\ inputIndex > LastInput
             /\ grad0' = IF inputIndex = 0 THEN r.grad ELSE grad0
             /\ grad1' = IF inputIndex = 1 THEN r.grad ELSE grad1
             /\ grad2' = IF inputIndex = 2 THEN r.grad ELSE grad2
             /\ grad3' = IF inputIndex = 3 THEN r.grad ELSE grad3
             /\ nodeGrad' = r.nodeGrad
             /\ val1' = r.val1
             /\ err' = r.err
             /\ last' = (CASE inputIndex = 0 -> "grad0" [] inputIndex = 1 -> "grad1"
                           [] inputIndex = 2 -> "grad2" [] inputIndex = 3 -> "grad3")
    /\ pre0' = grad0
    /\ pre1' = grad1
    /\ pre2' = grad2
    /\ pre3' = grad3
    /\ calls' = calls + 1
    /\ UNCHANGED <<shapeVars, orig0, orig1, prev0, prev1, frame, gaps, val0, nodeVal, branch,
                   in2, in3, val2, val3, m_strideDim, m_stride, m_invNorm0, m_invNorm1, nPar, tIdx,
                   poolVars>>

NextNode == Evaluate \/ ComputeGradient


\* ---------------------------------------------------------------- StrideTimes from construction
\* a StrideTimes node as constructed: m_stride = 1, m_strideDim not initialised
\* (Validate sets it before anything reads it); B has S * T columns
InitStrideFresh ==
    /\ kind = "StrideTimes"
    /\ m_stride = 1
    /\ m_strideDim \in Garbage
    /\ in0 \in {Shape(r, c) : r \in 1..MaxRows, c \in 1..MaxCols}
    /\ \E S \in 1..MaxDim, T \in 1..MaxDim, r1 \in 1..MaxDim :
          /\ nPar = S
          /\ in1 = Shape(r1, S * T)
          /\ frame \in {"all", "single"}
          /\ tIdx \in (IF frame = "all" THEN {1} ELSE 1..T)
    /\ in2 = Shape(1, 1)
    /\ val2 \in {ConstMatrix(in2, sd) : sd \in 0..2}
    /\ grad2 = ConstMatrix(in2, 0)
    /\ in3 = NoShape
    /\ val3 = <<>>
    /\ grad3 = <<>>
    /\ m_invNorm0 = <<>>
    /\ m_invNorm1 = <<>>
    /\ lay0 = FALSE
    /\ lay1 = TRUE
    /\ out = NoShape
    /\ outLay = FALSE
    /\ gaps = {}
    /\ val0 = RowMajor(in0, 0)
    /\ val1 = RowMajor(in1, 1)
    /\ nodeVal = <<>>
    /\ nodeGrad = <<>>
    /\ grad0 = ConstMatrix(in0, 0)
    /\ grad1 = ConstMatrix(in1, 0)
    /\ NodeIdle

\* StrideTimesNode::Validate(isFinalValidationPass); the network validates
\* again after an evaluation when the minibatch changes
StrideValidateCall(final) ==
    LET r == StrideTimesNodeValidate(in0, in1, lay1, out, outLay, final, in2, val2,
                                     m_strideDim, m_stride)
    IN  /\ m_strideDim' = r.strideDim
        /\ out' = r.out
        /\ outLay' = r.outLay
        /\ nodeVal' = [p \in Idx(r.out) |-> IF p \in DOMAIN nodeVal THEN nodeVal[p] ELSE 0]
        /\ err' = r.err
        /\ last' = IF final THEN "final" ELSE "nonfinal"
        /\ calls' = calls + 1
        /\ UNCHANGED <<kind, in0, in1, lay0, lay1, orig0, orig1, prev0, prev1,
                       frame, gaps, val0, val1, nodeGrad, grad0, grad1, pre0, pre1, branch,
                       in2, in3, val2, val3, grad2, grad3, pre2, pre3, m_stride,
                       m_invNorm0, m_invNorm1, nPar, tIdx, poolVars>>

StrideValidateNonFinal ==
    /\ kind = "StrideTimes"
    /\ err = "none"
    /\ last \in {"none", "nonfinal", "eval"}
    /\ calls < MaxPasses - 1
    /\ StrideValidateCall(FALSE)

StrideValidateFinal ==
    /\ kind = "StrideTimes"
    /\ err = "none"
    /\ last \in {"none", "nonfinal", "eval"}
    /\ calls < MaxPasses
    /\ StrideValidateCall(TRUE)

NextStrideShape == StrideValidateNonFinal \/ StrideValidateFinal \/ Evaluate

SpecStrideShape == InitStrideFresh /\ [][NextStrideShape]_vars


\* ---------------------------------------------------------------- the similarity nodes inside a loop
\* the minibatch holds nPar parallel sequences of NumFrames time steps; the
\* network evaluates the node frame by frame (t = 1 .. NumFrames) and then
\* differentiates it frame by frame (t = NumFrames .. 1, inputs 0 and 1 in turn)
NumFrames == in1.cols \div nPar

FrameShape(sh) == SliceShape(sh, "single", nPar)

FrameOf(mat, sh, t) == DataSlice(mat, sh, "single", t, nPar)

InitCosFrames ==
    /\ kind \in CosKinds
    /\ \E r \in 1..MaxDim, S \in 1..MaxDim, T \in 2..MaxMat :
          /\ nPar = S
          /\ in0 = Shape(r, S * T)
    /\ in1 = in0
    /\ lay0 = TRUE
    /\ lay1 = TRUE
    /\ frame = "single"
    /\ tIdx = 1
    /\ gaps = {}
    /\ \E ops \in {<<"two", "five">>, <<"five", "one">>} :
          /\ val0 = CosOperand(ops[1], in0)
          /\ val1 = CosOperand(ops[2], in1)
    /\ IF kind = "CosDistance"
       THEN /\ in2 = NoShape
            /\ in3 = NoShape
            /\ val2 = <<>>
            /\ val3 = <<>>
            /\ grad2 = <<>>
            /\ grad3 = <<>>
            /\ LET v == CosDistanceNodeValidate(in0, in1, lay0, lay1, NoShape, FALSE, TRUE)
               IN  out = v.out /\ outLay = v.outLay
       ELSE /\ in2 = Shape(1, 1)
            /\ in3 = Shape(1, 1)
            /\ \E shift \in 0..MaxNeg, negNumber \in 0..MaxNeg :
                  /\ val2 = ConstMatrix(in2, shift)
                  /\ val3 = ConstMatrix(in3, negNumber)
                  /\ LET v == CosDistanceWithNegativeSamplesNodeValidate(
                                  in0, in1, lay0, lay1, NoShape, FALSE, TRUE, negNumber)
                     IN  out = v.out /\ outLay = v.outLay
            /\ grad2 = RatMatrix(ConstMatrix(in2, 0))
            /\ grad3 = RatMatrix(ConstMatrix(in3, 0))
    /\ nodeVal = RatMatrix(ConstMatrix(out, 0))
    /\ nodeGrad = RatMatrix(RowMajor(out, 0))
    /\ grad0 = RatMatrix(ConstMatrix(in0, 0))
    /\ grad1 = RatMatrix(ConstMatrix(in1, 0))
    /\ m_strideDim = 0
    /\ m_stride = 1
    /\ m_invNorm0 = <<>>
    /\ m_invNorm1 = <<>>
    /\ NodeIdle

\* EvaluateThisNode(frameRange) for the next time step: the slices of the
\* inputs and of the value are those of the frame, m_invNorm0 / m_invNorm1 are
\* the node's only pair of norm matrices
EvaluateFrame ==
    /\ kind \in CosKinds
    /\ last \in {"none", "eval"}
    /\ err = "none"
    /\ LET t == IF last = "none" THEN 1 ELSE tIdx + 1
           sliceInput0Value == FrameOf(val0, in0, t)
           sliceInput1Value == FrameOf(val1, in1, t)
           r == IF kind = "CosDistance"
                THEN CosDistanceNodeEvaluateThisNodeS(FrameShape(in0), sliceInput0Value, sliceInput1Value)
                ELSE CosDistanceWithNegativeSamplesNodeEvaluateThisNodeS(
                         FrameShape(in0), sliceInput0Value, sliceInput1Value,
                         Get00Element(val2), Get00Element(val3))
       IN  /\ t <= NumFrames
           /\ tIdx' = t
           /\ nodeVal' = WriteSlice(nodeVal, r.val, "single", t, nPar)
           /\ m_invNorm0' = r.invNorm0
           /\ m_invNorm1' = r.invNorm1
           /\ err' = r.err
    /\ last' = "eval"
    /\ UNCHANGED <<shapeVars, calls, orig0, orig1, prev0, prev1, frame, gaps, val0, val1, nodeGrad,
                   grad0, grad1, pre0, pre1, branch, in2, in3, val2, val3, grad2, grad3, pre2, pre3,
                   m_strideDim, m_stride, nPar, poolVars>>

\* ComputeInputPartial(inputIndex, frameRange) for the next frame and input of
\* the backward loop, once every frame was evaluated
ComputeGradientFrame ==
    /\ kind \in CosKinds
    /\ err = "none"
    /\ \/ last = "eval" /\ tIdx = NumFrames
       \/ last = "grad0"
       \/ last = "grad1" /\ tIdx > 1
    /\ LET t == IF last = "grad1" THEN tIdx - 1 ELSE tIdx
           inputIndex == IF last = "grad0" THEN 1 ELSE 0
           sliceInput0Value == FrameOf(val0, in0, t)
           sliceInput1Value == FrameOf(val1, in1, t)
           sliceOutputValue == FrameOf(nodeVal, out, t)
           sliceInputGrad == FrameOf(InputGrad(inputIndex), InputShape(inputIndex), t)
           sliceOutputGrad == FrameOf(nodeGrad, out, t)
           r == IF kind = "CosDistance"
                THEN CosDistanceNodeComputeInputPartial(
                         inputIndex, "single", m_invNorm0, m_invNorm1, sliceOutputValue,
                         sliceInput0Value, sliceInput1Value, sliceOutputGrad, sliceInputGrad,
                         sliceInput1Value)
                ELSE CosDistanceWithNegativeSamplesNodeComputeInputPartial(
                         inputIndex, "single", m_invNorm0, m_invNorm1, sliceOutputValue,
                         sliceInput0Value, sliceInput1Value, FrameShape(in0),
                         Get00Element(val2), Get00Element(val3), sliceInputGrad,
                         FrameShape(InputShape(inputIndex)), sliceOutputGrad, sliceInput1Value)
       IN  /\ tIdx' = t
           /\ grad0' = IF inputIndex = 0 THEN WriteSlice(grad0, r.grad, "single", t, nPar) ELSE grad0
           /\ grad1' = IF inputIndex = 1 THEN WriteSlice(grad1, r.grad, "single", t, nPar) ELSE grad1
           /\ err' = r.err
           /\ last' = IF inputIndex = 0 THEN "grad0" ELSE "grad1"
    /\ pre0' = grad0
    /\ pre1' = grad1
    /\ calls' = calls + 1
    /\ UNCHANGED <<shapeVars, orig0, orig1, prev0, prev1, frame, gaps, val0, val1, nodeVal, nodeGrad,
                   branch, in2, in3, val2, val3, grad2, grad3, pre2, pre3,
                   m_strideDim, m_stride, m_invNorm0, m_invNorm1, nPar, poolVars>>

NextCosFrames == EvaluateFrame \/ ComputeGradientFrame

SpecCosFrames == InitCosFrames /\ [][NextCosFrames]_vars

SpecMat == InitMat /\ [][NextNode]_vars

SpecStride == InitStride /\ [][NextNode]_vars

SpecCos == InitCos /\ [][NextNode]_vars

\* ---------------------------------------------------------------- claims on Evaluate / ComputeGradient

\* the input the last ComputeGradient worked on
LastIsGradient == last \in {"grad0", "grad1", "grad2", "grad3"}

LastIndex ==
    CASE last = "grad0" -> 0 [] last = "grad1" -> 1 [] last = "grad2" -> 2 [] last = "grad3" -> 3

\* C11: gradients are only accumulated: after every successful ComputeGradient
\* the input's gradient is its prior content plus a contribution that does not
\* depend on that prior content (the one the same call adds to a zero gradient);
\* Diagonal's backward adds the output gradient onto the diagonal and leaves
\* every other entry as it was.
C11_GradientsOnlyAccumulated ==
    (kind \in MatKinds /\ LastIsGradient /\ err = "none") =>
        LET ig == InputGrad(LastIndex)
            prior == InputPre(LastIndex)
            contribution == GradResult(LastIndex, SetValue(prior, 0), 0).grad
        IN  /\ \A p \in DOMAIN ig : ig[p] = prior[p] + contribution[p]
            /\ kind = "Diagonal" =>
                  \A p \in DOMAIN ig :
                      ig[p] = prior[p] + (IF p[1] = p[2] THEN nodeGrad[<<1, p[1]>>] ELSE 0)

\* C17: Transpose backward increases inputGradient[i][j] by exactly G[j][i]
\* for an r x c input and the c x r output gradient G.
C17_TransposeBackwardIsTranspose ==
    (kind = "Transpose" /\ last = "grad0" /\ err = "none") =>
        \A p \in Idx(in0) : grad0[p] = pre0[p] + nodeGrad[<<p[2], p[1]>>]

\* the sum of the elements in the valid (non-padding) columns of the input as
\* it was handed to the node
ValidSum ==
    SumSet([p \in Idx(in0) |-> IF lay0 /\ p[2] \in gaps THEN 0 ELSE RowMajor(in0, 0)[p]], Idx(in0))

\* C18: SumElements has shape 1 x 1 and no minibatch layout after Validate even
\* when its input carries one; Evaluate writes the sum of the input's elements
\* in valid columns only, whatever the padding columns hold.
C18_SumElementsValidColumnsOnly ==
    kind = "SumElements" =>
        /\ out = Shape(1, 1)
        /\ ~outLay
        /\ (last # "none" /\ err = "none") => nodeVal = ConstMatrix(Shape(1, 1), ValidSum)

C18_Witness ==
    /\ kind = "SumElements"
    /\ last = "eval"
    /\ err = "none"
    /\ lay0
    /\ gaps # {}
    /\ in0.rows >= 2
    /\ in0.cols >= 2
    /\ nodeVal[<<1, 1>>] = ValidSum
    /\ ValidSum < SumOfElements(RowMajor(in0, 0), in0)

\* sum(G .* (A * B))
Loss(a, b, g) ==
    LET c == AssignProductOf(a, in0, b, in1)
    IN  SumSet([p \in Idx(out) |-> g[p] * c[p]], Idx(out))

\* the matrix with element q raised by one
Bump(mat, q) == [mat EXCEPT ![q] = @ + 1]

\* C19: ComputeGradient(0) of Times increases A's gradient by G * transpose(B),
\* ComputeGradient(1) increases B's gradient by transpose(A) * G, and for every
\* element this is the finite-difference derivative of sum(G .* (A * B)) (exact,
\* the product being bilinear); G and B are taken as the call leaves them, with
\* their padding columns zeroed.
C19_TimesGradient ==
    (kind = "Times" /\ last \in {"grad0", "grad1"} /\ err = "none") =>
        IF last = "grad0"
        THEN \A p \in Idx(in0) :
                /\ grad0[p] = pre0[p]
                     + SumSet([c \in 1..out.cols |-> nodeGrad[<<p[1], c>>] * val1[<<p[2], c>>]],
                              1..out.cols)
                /\ grad0[p] - pre0[p]
                     = Loss(Bump(val0, p), val1, nodeGrad) - Loss(val0, val1, nodeGrad)
        ELSE \A p \in Idx(in1) :
                /\ grad1[p] = pre1[p]
                     + SumSet([r \in 1..out.rows |-> val0[<<r, p[1]>>] * nodeGrad[<<r, p[2]>>]],
                              1..out.rows)
                /\ grad1[p] - pre1[p]
                     = Loss(val0, Bump(val1, p), nodeGrad) - Loss(val0, val1, nodeGrad)

C19_Witness ==
    /\ kind = "Times"
    /\ last = "grad0"
    /\ err = "none"
    /\ in0.rows # in0.cols
    /\ in1.rows # in1.cols
    /\ gaps # {}
    /\ pre0 = ConstMatrix(in0, 1)
    /\ grad0 # pre0

\* the shapes of the column-stride example: A is d x (s * T1), B is T1 x s
ColumnStrideExample == m_strideDim = 1 /\ in0.cols = in1.cols * in1.rows

\* C14: StrideTimes supports only the full-sequence mode: Evaluate and
\* ComputeGradient for inputs 0 and 1 complete on the all-frames FrameRange and
\* fail fatally on the FrameRange of a single time step.
C14_StrideTimesFullSequenceOnly ==
    (kind = "StrideTimes" /\ last \in {"eval", "grad0", "grad1"} /\ ColumnStrideExample) =>
        /\ frame = "all" => err = "none"
        /\ frame = "single" => err # "none"

\* C20: column-stride forward: with stride selector 1, A of shape d x (s * T1)
\* and B (as the FrameRange shows it) of shape T1 x s, Evaluate produces the
\* d x s output c[i][k] = sum over j < T1 of a[i][j * s + k] * b[j][k].
C20_StrideTimesColumnStride ==
    (kind = "StrideTimes" /\ m_strideDim = 1 /\ last = "eval"
     /\ m_stride * in1.rows = in0.cols) =>
        LET first == IF frame = "all" THEN 0 ELSE (tIdx - 1) * nPar
        IN  /\ err = "none"
            /\ m_stride = SliceShape(in1, frame, nPar).cols
            /\ out.rows = in0.rows
            /\ first + m_stride <= out.cols
            /\ \A i \in 1..in0.rows, k \in 0..(m_stride - 1) :
                  nodeVal[<<i, first + k + 1>>]
                    = SumSet([j \in 0..(in1.rows - 1) |->
                                 val0[<<i, j * m_stride + k + 1>>] * val1[<<j + 1, first + k + 1>>]],
                             0..(in1.rows - 1))

C20_Witness ==
    /\ kind = "StrideTimes"
    /\ m_strideDim = 1
    /\ last = "eval"
    /\ err = "none"
    /\ frame = "all"
    /\ m_stride >= 2
    /\ in1.rows >= 2
    /\ in0.rows >= 2
    /\ out = Shape(in0.rows, m_stride)

\* the cosine of the angle between column j of the operands, from their inverse norms
CosineOfColumn(j) ==
    RatMul(RatMul(AssignInnerProductOf(val0, val1, in0)[<<1, j>>],
                  AssignElementInverseOf(AssignVectorNorm2Of(val0, in0))[<<1, j>>]),
           AssignElementInverseOf(AssignVectorNorm2Of(val1, in1))[<<1, j>>])

C16_ControlInputsNotDifferentiated ==
    kind = "CosDistanceWithNegativeSamples" =>
        /\ grad2 = RatMatrix(ConstMatrix(in2, 0))
        /\ grad3 = RatMatrix(ConstMatrix(in3, 0))
        /\ (last \in {"grad2", "grad3"} /\ err = "none") =>
              (grad0 = pre0 /\ grad1 = pre1 /\ grad2 = pre2 /\ grad3 = pre3)

\* ---------------------------------------------------------------- the scratch pool
\* the scratch members each hook passes to RequestMatrixFromPool / ReleaseMatrixToPool, in order
RowElementTimesNodeRequestMatricesBeforeGradientComp == <<"m_tempMatrix">>

RowElementTimesNodeReleaseMatricesAfterGradientComp == <<"m_tempMatrix">>

ColumnElementTimesNodeRequestMatricesBeforeGradientComp == <<"m_tempMatrix">>

ColumnElementTimesNodeReleaseMatricesAfterGradientComp == <<"m_tempMatrix">>

DiagTimesNodeRequestMatricesBeforeGradientComp == <<"m_innerproduct", "m_rightGradient">>

DiagTimesNodeReleaseMatricesAfterGradientComp == <<"m_innerproduct", "m_rightGradient">>

CosDistanceNodeRequestMatricesBeforeEval == <<"m_invNorm0", "m_invNorm1">>

CosDistanceNodeRequestMatricesBeforeGradientComp == <<"m_leftTerm", "m_rightTerm", "m_temp">>

\* ReleaseMatricesAfterGradientComp that forgets m_temp
CosDistanceNodeReleaseMatricesAfterGradientCompNoTemp ==
    <<"m_invNorm0", "m_invNorm1", "m_leftTerm", "m_rightTerm">>

CosDistanceNodeReleaseMatricesAfterGradientComp ==
    <<"m_invNorm0", "m_invNorm1", "m_leftTerm", "m_rightTerm", "m_temp">>


\* RequestMatricesBeforeEval that requests the two norm matrices only
CosDistanceWithNegativeSamplesNodeRequestMatricesBeforeEvalNormsOnly == <<"m_invNorm0", "m_invNorm1">>

CosDistanceWithNegativeSamplesNodeRequestMatricesBeforeEval ==
    <<"m_invNorm0", "m_invNorm1", "m_leftTerm", "m_rightTerm">>

CosDistanceWithNegativeSamplesNodeRequestMatricesBeforeGradientComp == <<"m_invNormSquare", "m_temp">>

CosDistanceWithNegativeSamplesNodeReleaseMatricesAfterGradientComp ==
    <<"m_invNorm0", "m_invNorm1", "m_leftTerm", "m_rightTerm", "m_invNormSquare", "m_temp">>

ScratchKinds == {"RowElementTimes", "ColumnElementTimes", "DiagTimes",
                 "CosDistance", "CosDistanceWithNegativeSamples"}

\* virtual dispatch of the three hooks over the node kind
RequestMatricesBeforeEvalMembers(k) ==
    CASE k = "CosDistance" -> CosDistanceNodeRequestMatricesBeforeEval
      [] k = "CosDistanceWithNegativeSamples" -> CosDistanceWithNegativeSamplesNodeRequestMatricesBeforeEval
      [] OTHER -> <<>>

RequestMatricesBeforeGradientCompMembers(k) ==
    CASE k = "RowElementTimes" -> RowElementTimesNodeRequestMatricesBeforeGradientComp
      [] k = "ColumnElementTimes" -> ColumnElementTimesNodeRequestMatricesBeforeGradientComp
      [] k = "DiagTimes" -> DiagTimesNodeRequestMatricesBeforeGradientComp
      [] k = "CosDistance" -> CosDistanceNodeRequestMatricesBeforeGradientComp
      [] k = "CosDistanceWithNegativeSamples" ->
             CosDistanceWithNegativeSamplesNodeRequestMatricesBeforeGradientComp

ReleaseMatricesAfterGradientCompMembers(k) ==
    CASE k = "RowElementTimes" -> RowElementTimesNodeReleaseMatricesAfterGradientComp
      [] k = "ColumnElementTimes" -> ColumnElementTimesNodeReleaseMatricesAfterGradientComp
      [] k = "DiagTimes" -> DiagTimesNodeReleaseMatricesAfterGradientComp
      [] k = "CosDistance" -> CosDistanceNodeReleaseMatricesAfterGradientComp
      [] k = "CosDistanceWithNegativeSamples" ->
             CosDistanceWithNegativeSamplesNodeReleaseMatricesAfterGradientComp

\* the scratch members a node kind declares
ScratchMembers(k) ==
    CASE k \in {"RowElementTimes", "ColumnElementTimes"} -> {"m_tempMatrix"}
      [] k = "DiagTimes" -> {"m_innerproduct", "m_rightGradient"}
      [] k = "CosDistance" -> {"m_invNorm0", "m_invNorm1", "m_leftTerm", "m_rightTerm", "m_temp"}
      [] k = "CosDistanceWithNegativeSamples" ->
             {"m_invNorm0", "m_invNorm1", "m_leftTerm", "m_rightTerm", "m_invNormSquare", "m_temp"}


\* the scratch members EvaluateThisNode dereferences (in both frame modes)
EvaluateThisNodeScratch(k) ==
    CASE k = "CosDistance" -> {"m_invNorm0", "m_invNorm1"}
      [] k = "CosDistanceWithNegativeSamples" -> {"m_invNorm0", "m_invNorm1", "m_leftTerm", "m_rightTerm"}
      [] OTHER -> {}

\* the scratch members ComputeInputPartial dereferences (in both frame modes, for any input)
ComputeInputPartialScratch(k) ==
    CASE k \in {"RowElementTimes", "ColumnElementTimes"} -> {"m_tempMatrix"}
      [] k = "DiagTimes" -> {"m_innerproduct", "m_rightGradient"}
      [] k = "CosDistance" -> {"m_invNorm0", "m_invNorm1", "m_temp", "m_rightTerm", "m_leftTerm"}
      [] k = "CosDistanceWithNegativeSamples" ->
             {"m_invNorm0", "m_invNorm1", "m_temp", "m_rightTerm", "m_leftTerm", "m_invNormSquare"}

\* no node class of the file overrides ReleaseMatricesAfterEval: the hook that
\* ends a node's part in a pass without gradient computation releases none of
\* the members the class declares
ReleaseMatricesAfterEvalMembers(k) == <<>>

\* number of nodes of the graph that share the pool
PoolNodes == 2

\* the pool and the handles of all nodes
PoolState(l, f, a, rq, rl) ==
    [lease |-> l, free |-> f, allocated |-> a, requested |-> rq, released |-> rl]

\* MatrixPool::Request: a released buffer if there is one, else a new one
MatrixPoolRequest(free, alloc) ==
    IF free = {}
    THEN [buffer |-> alloc + 1, free |-> free, allocated |-> alloc + 1]
    ELSE LET b == CHOOSE x \in free : \A c \in free : x >= c
         IN  [buffer |-> b, free |-> free \ {b}, allocated |-> alloc]

\* RequestMatrixFromPool(member, matrixPool) of node n
RequestMatrixFromPool(st, n, member) ==
    LET r == MatrixPoolRequest(st.free, st.allocated)
    IN  PoolState([st.lease EXCEPT ![n][member] = r.buffer], r.free, r.allocated,
                  [st.requested EXCEPT ![n][member] = @ + 1], st.released)

\* ReleaseMatrixToPool(member, matrixPool) of node n: the buffer returns to the pool
\* and the lease ends
ReleaseMatrixToPool(st, n, member) ==
    PoolState([st.lease EXCEPT ![n][member] = 0],
              IF st.lease[n][member] = 0 THEN st.free ELSE st.free \cup {st.lease[n][member]},
              st.allocated, st.requested,
              [st.released EXCEPT ![n][member] = @ + 1])

\* the hook requesting one buffer and letting all its members share it
RequestAllShared(st, n, members) ==
    IF members = <<>> THEN st
    ELSE LET first == RequestMatrixFromPool(st, n, Head(members))
             names == {members[i] : i \in DOMAIN members}
         IN  PoolState([first.lease EXCEPT ![n] =
                           [m \in DOMAIN @ |-> IF m \in names THEN first.lease[n][Head(members)] ELSE @[m]]],
                       first.free, first.allocated,
                       [st.requested EXCEPT ![n] =
                           [m \in DOMAIN @ |-> IF m \in names THEN @[m] + 1 ELSE @[m]]],
                       first.released)

RECURSIVE RequestAll(_, _, _)
RequestAll(st, n, members) ==
    IF members = <<>> THEN st
    ELSE RequestAll(RequestMatrixFromPool(st, n, Head(members)), n, Tail(members))

RECURSIVE ReleaseAll(_, _, _)
ReleaseAll(st, n, members) ==
    IF members = <<>> THEN st
    ELSE ReleaseAll(ReleaseMatrixToPool(st, n, Head(members)), n, Tail(members))

CurrentPool == PoolState(lease, releasedMatrices, allocated, requested, released)

\* a graph of PoolNodes nodes of one scratch-owning kind, none of them evaluated yet
InitPool ==
    /\ kind \in ScratchKinds
    /\ in0 = NoShape
    /\ in1 = NoShape
    /\ lay0 = FALSE
    /\ lay1 = FALSE
    /\ out = NoShape
    /\ outLay = FALSE
    /\ err = "none"
    /\ last = "none"
    /\ calls = 0
    /\ orig0 = NoShape
    /\ orig1 = NoShape
    /\ prev0 = NoShape
    /\ prev1 = NoShape
    /\ ZipIdle
    /\ CtlIdle
    /\ phase = [n \in 1..PoolNodes |-> "built"]
    /\ lease = [n \in 1..PoolNodes |-> [m \in ScratchMembers(kind) |-> 0]]
    /\ releasedMatrices = {}
    /\ allocated = 0
    /\ requested = [n \in 1..PoolNodes |-> [m \in ScratchMembers(kind) |-> 0]]
    /\ released = [n \in 1..PoolNodes |-> [m \in ScratchMembers(kind) |-> 0]]

\* the pool after a hook of node n ran, and the node's new phase
PoolStep(n, st, ph) ==
    /\ phase' = [phase EXCEPT ![n] = ph]
    /\ lease' = st.lease
    /\ releasedMatrices' = st.free
    /\ allocated' = st.allocated
    /\ requested' = st.requested
    /\ released' = st.released
    /\ UNCHANGED <<shapeVars, err, last, calls, orig0, orig1, prev0, prev1, zipVars, ctlVars>>

RequestMatricesBeforeEval ==
    \E n \in DOMAIN phase :
        /\ phase[n] = "built"
        /\ PoolStep(n, RequestAll(CurrentPool, n, RequestMatricesBeforeEvalMembers(kind)),
                    "requestedEval")

\* the node's Evaluate within the pass
EvaluateNode ==
    \E n \in DOMAIN phase :
        /\ phase[n] = "requestedEval"
        /\ PoolStep(n, CurrentPool, "evaluated")

RequestMatricesBeforeGradientComp ==
    \E n \in DOMAIN phase :
        /\ phase[n] = "evaluated"
        /\ PoolStep(n, RequestAll(CurrentPool, n, RequestMatricesBeforeGradientCompMembers(kind)),
                    "requestedGrad")

\* the node's ComputeGradient for one input and frame, any number of times
ComputeGradientNode ==
    \E n \in DOMAIN phase :
        /\ phase[n] \in {"requestedGrad", "gradient"}
        /\ PoolStep(n, CurrentPool, "gradient")

ReleaseMatricesAfterGradientComp ==
    \E n \in DOMAIN phase :
        /\ phase[n] = "gradient"
        /\ PoolStep(n, ReleaseAll(CurrentPool, n, ReleaseMatricesAfterGradientCompMembers(kind)),
                    "released")

NextPool ==
    \/ RequestMatricesBeforeEval
    \/ EvaluateNode
    \/ RequestMatricesBeforeGradientComp
    \/ ComputeGradientNode
    \/ ReleaseMatricesAfterGradientComp


\* the hook after Evaluate of a pass without gradient computation (evaluation
\* of a trained model): the node is done, no further hook is called on it
ReleaseMatricesAfterEval ==
    \E n \in DOMAIN phase :
        /\ phase[n] = "evaluated"
        /\ PoolStep(n, ReleaseAll(CurrentPool, n, ReleaseMatricesAfterEvalMembers(kind)),
                    "forwardDone")

NextPoolRun ==
    \/ RequestMatricesBeforeEval
    \/ EvaluateNode
    \/ ReleaseMatricesAfterEval
    \/ RequestMatricesBeforeGradientComp
    \/ ComputeGradientNode
    \/ ReleaseMatricesAfterGradientComp

\* a pass that has requested a node's evaluation scratch goes on: the node is
\* evaluated, then either the forward-only hook or the gradient hooks run, and
\* a gradient pass ends with its release hook; whether a pass is ever started
\* on a node is up to the caller
PoolRunFairness ==
    /\ WF_vars(EvaluateNode)
    /\ WF_vars(ReleaseMatricesAfterEval \/ RequestMatricesBeforeGradientComp)
    /\ WF_vars(ComputeGradientNode)
    /\ WF_vars(ReleaseMatricesAfterGradientComp)

SpecPoolRun == InitPool /\ [][NextPoolRun]_vars /\ PoolRunFairness

SpecPool == InitPool /\ [][NextPool]_vars

\* ---------------------------------------------------------------- claims on the scratch pool

\* the members of node n that were requested / released at least once
RequestedSet(n) == {m \in DOMAIN requested[n] : requested[n][m] > 0}

ReleasedSet(n) == {m \in DOMAIN released[n] : released[n][m] > 0}

\* C12: request/release pairing: over RequestMatricesBeforeEval, Evaluate,
\* RequestMatricesBeforeGradientComp, ComputeGradient (any number),
\* ReleaseMatricesAfterGradientComp the set of scratch tensors released equals
\* the set requested: each requested tensor is released exactly once, none is
\* released that was not requested, and no lease of the node is outstanding
\* afterwards.
C12_RequestReleasePairing ==
    (kind \in ScratchKinds /\ phase # <<>>) =>
        \A n \in DOMAIN phase :
            /\ \A m \in DOMAIN lease[n] : released[n][m] <= requested[n][m]
            /\ phase[n] = "released" =>
                  /\ ReleasedSet(n) = RequestedSet(n)
                  /\ \A m \in DOMAIN lease[n] :
                        /\ requested[n][m] = 1
                        /\ released[n][m] = 1
                        /\ lease[n][m] = 0

C12_Witness ==
    /\ kind = "CosDistance"
    /\ phase # <<>>
    /\ \A n \in DOMAIN phase : phase[n] = "released"
    /\ RequestedSet(1) = {"m_invNorm0", "m_invNorm1", "m_leftTerm", "m_rightTerm", "m_temp"}
    /\ ReleasedSet(1) = RequestedSet(1)

\* the leases that are live: node, member and buffer
LiveLeases == {<<n, m>> \in (DOMAIN lease) \X ScratchMembers(kind) : lease[n][m] # 0}

LastIsValidate == last \in {"nonfinal", "final"}

\* C21: KhatriRaoProduct: a column count that is 0 on exactly one operand is
\* inferred from the other operand in any pass; Validate(true) fails exactly
\* when the two column counts still differ after the inference, and when it
\* succeeds the output shape is (rows(A) * rows(B)) x n with n the common
\* column count of A and B.
C21_KhatriRaoShapeRule ==
    (kind = "KhatriRaoProduct" /\ LastIsValidate) =>
        /\ (prev0.cols = 0 /\ prev1.cols # 0) => in0 = Shape(prev0.rows, prev1.cols)
        /\ (prev0.cols # 0 /\ prev1.cols = 0) => in1 = Shape(prev1.rows, prev0.cols)
        /\ last = "final" =>
              /\ err = "none" <=> in0.cols = in1.cols
              /\ err # "none" => err = "LogicError"
              /\ err = "none" => out = Shape(in0.rows * in1.rows, in0.cols)

C21_Witness ==
    /\ kind = "KhatriRaoProduct" /\ last = "final" /\ err = "none"
    /\ prev0 = Shape(MaxDim, 0) /\ prev1 = Shape(MaxDim, MaxDim)
    /\ in0 = Shape(MaxDim, MaxDim)
    /\ out = Shape(MaxDim * MaxDim, MaxDim)

\* an input the final pass found fully resolved (no zero dimension)
Resolved(sh) == sh.rows # 0 /\ sh.cols # 0

\* C22: Validate(true) of CosDistance fails when the two fully resolved operands
\* have different row counts or different column counts.
C22_CosDistanceRejectsShapeConflict ==
    (/\ kind = "CosDistance" /\ last = "final"
     /\ Resolved(prev0) /\ Resolved(prev1)
     /\ (prev0.rows # prev1.rows \/ prev0.cols # prev1.cols))
        => err # "none"

\* C27: whenever Validate(true) of TransposeTimes returns successfully, the
\* node's shape is cols(A) x cols(B), the column counts being those the
\* operands have after the call.
C27_TransposeTimesShapeConsistent ==
    (kind = "TransposeTimes" /\ last = "final" /\ err = "none")
        => out = Shape(in0.cols, in1.cols)

\* C23: StrideTimes with stride selector 1 (column stride): for every s >= 1 and
\* T1 >= 1, Validate(true) on A of shape d x (s * T1) and B of shape T1 x s
\* succeeds and fixes the output to d x s, on a node that was not evaluated yet
\* too; it fails only when cols(A) differs from rows(B) * s.
C23_StrideTimesAcceptsColumnStride ==
    (kind = "StrideTimes" /\ last = "final" /\ Get00Element(val2) = 1) =>
        /\ in0.cols = in1.rows * in1.cols => (err = "none" /\ out = Shape(in0.rows, in1.cols))
        /\ err # "none" => in0.cols # in1.rows * in1.cols

\* C30: once Validate(true) has succeeded, a later Evaluate leaves the node's
\* row and column counts as Validate(true) fixed them; for StrideTimes in
\* row-stride mode the rows chosen in Validate (rows(A) / stride) are the rows
\* Evaluate sets (rows(A) / number of parallel sequences).
C30_ValidatedShapeIsStable ==
    [][(kind = "StrideTimes" /\ last = "final" /\ err = "none" /\ last' = "eval")
          => out' = out]_vars

\* the columns of the node's slice that hold frames (are not padding)
ValidCols == IF outLay THEN (1..out.cols) \ gaps ELSE 1..out.cols

\* C24: a gradient without frame axis that accumulates a sum over the minibatch
\* columns (DiagTimes input 0, ColumnElementTimes input 1, Times input 0) grows
\* by the sum over the columns that hold frames only: what padding columns of
\* the node's gradient and of the other operand hold does not enter it.
C24_ProductsMaskedBeforeFrameReduction ==
    /\ (kind = "DiagTimes" /\ last = "grad0" /\ err = "none") =>
          \A p \in DOMAIN grad0 :
             grad0[p] = pre0[p] + SumSet([j \in ValidCols |-> nodeGrad[<<p[1], j>>] * val1[<<p[1], j>>]],
                                         ValidCols)
    /\ (kind = "ColumnElementTimes" /\ last = "grad1" /\ err = "none") =>
          \A p \in DOMAIN grad1 :
             grad1[p] = pre1[p] + SumSet([j \in ValidCols |-> nodeGrad[<<p[1], j>>] * val0[<<p[1], j>>]],
                                         ValidCols)
    /\ (kind = "Times" /\ last = "grad0" /\ err = "none") =>
          \A p \in DOMAIN grad0 :
             grad0[p] = pre0[p] + SumSet([j \in ValidCols |-> nodeGrad[<<p[1], j>>] * val1[<<p[2], j>>]],
                                         ValidCols)

\* C25: for every pair of operand shapes for which Evaluate of Plus or Minus
\* completed without error, ComputeGradient for input 0 and for input 1 over the
\* same frame range selects a pattern and completes without raising.
C25_ZipBackwardAgreesWithForward ==
    (kind \in ZipKinds /\ LastIsPartial) => (err = "none" /\ branch # "none")

\* the inverse column norms EvaluateThisNodeS computes for frame t of an input
InvNormOfFrame(mat, sh, t) ==
    AssignElementInverseOf(AssignVectorNorm2Of(FrameOf(mat, sh, t), FrameShape(sh)))

\* C26: when CosDistance or CosDistanceWithNegativeSamples was evaluated frame
\* by frame over more than one time step and is then differentiated frame by
\* frame, the inverse norms ComputeGradient reads for frame t are those
\* Evaluate computed for frame t.
C26_InvNormsBelongToFrame ==
    (kind \in CosKinds /\ frame = "single" /\ LastIsGradient) =>
        /\ m_invNorm0 = InvNormOfFrame(val0, in0, tIdx)
        /\ m_invNorm1 = InvNormOfFrame(val1, in1, tIdx)

\* the members a hook's member list names
MemberSet(members) == {members[i] : i \in DOMAIN members}

\* C28: every scratch tensor Evaluate or ComputeGradient of RowElementTimes,
\* ColumnElementTimes, DiagTimes, CosDistance or CosDistanceWithNegativeSamples
\* reads or writes is under a live lease of the node at the access: Evaluate
\* touches only tensors requested before evaluation, ComputeGradient only
\* tensors requested before evaluation or before gradient computation.
C28_ScratchUsedOnlyWhileLeased ==
    \A n \in DOMAIN phase :
        /\ phase[n] = "evaluated" =>
              \A m \in EvaluateThisNodeScratch(kind) :
                  /\ lease[n][m] # 0
                  /\ m \in MemberSet(RequestMatricesBeforeEvalMembers(kind))
        /\ phase[n] = "gradient" =>
              \A m \in ComputeInputPartialScratch(kind) :
                  /\ lease[n][m] # 0
                  /\ m \in MemberSet(RequestMatricesBeforeEvalMembers(kind))
                           \cup MemberSet(RequestMatricesBeforeGradientCompMembers(kind))

C28_Witness ==
    /\ kind = "CosDistanceWithNegativeSamples"
    /\ phase = <<"gradient", "evaluated">>
    /\ \A m \in ComputeInputPartialScratch(kind) : lease[1][m] # 0
    /\ \A m \in EvaluateThisNodeScratch(kind) : lease[2][m] # 0

\* C29: the scratch tensors CosDistance and CosDistanceWithNegativeSamples lease
\* in RequestMatricesBeforeEval are eventually released in every run, a run
\* without gradient computation included.
C29_EvalScratchEventuallyReleased ==
    \A n \in 1..PoolNodes :
        [](phase[n] = "evaluated" =>
              <>(\A m \in MemberSet(RequestMatricesBeforeEvalMembers(kind)) : lease[n][m] = 0))

====
